---- MODULE Spec2Model ----
(***************************************************************************)
(* State-machine model of the afk-scraper repository: the extraction       *)
(* engine (scraper_service.py) and the websocket batch driver (app.py).    *)
(*                                                                         *)
(* Text is modelled at character level: a Python str is a sequence of      *)
(* one-character strings.  A parsed document (BeautifulSoup tree) is the   *)
(* sequence of its nodes in document order, each node carrying its depth;  *)
(* "#text" nodes are NavigableStrings, every other node is a Tag.          *)
(***************************************************************************)
EXTENDS Integers, Sequences, FiniteSets, TLC

VARIABLES
    fn,       \* the entry point exercised in this behaviour
    soup,     \* the parsed document the entry point works on
    args,     \* its other arguments (record)
    ret,      \* its return value, once called
    called,   \* whether it has returned
    \* app.websocket_endpoint
    request,        \* the JSON request received on the socket
    ws_pc,          \* position of the handler coroutine
    task_pc,        \* position of each process_url task
    results,        \* the value each process_url task returned
    permits,        \* free slots of the semaphore
    finished_count, \* the nonlocal counter of process_url
    sent,           \* the messages delivered on the socket, in order
    agg,            \* heroes, all_skills, all_engraving, all_signature, all_furniture
    client_gone,    \* the peer has disconnected: send_json raises
    \* google_sheets_service
    sh              \* the spreadsheet: the cell grid of each of its worksheets

pureVars == <<fn, soup, args, ret, called, sh>>
wsVars == <<request, ws_pc, task_pc, results, permits, finished_count, sent, agg, client_gone>>
vars == <<fn, soup, args, ret, called,
          request, ws_pc, task_pc, results, permits, finished_count, sent, agg, client_gone, sh>>

\* no websocket session
WsIdle ==
    /\ request = [urls |-> <<>>, export_type |-> "excel", sheet_ok |-> TRUE]
    /\ ws_pc = "idle"
    /\ task_pc = <<>>
    /\ results = <<>>
    /\ permits = 0
    /\ finished_count = 0
    /\ sent = <<>>
    /\ agg = <<>>
    /\ client_gone = FALSE

-----------------------------------------------------------------------------
(* Python str operations, on character sequences *)

UpperChars == <<"A","B","C","D","E","F","G","H","I","J","K","L","M",
                "N","O","P","Q","R","S","T","U","V","W","X","Y","Z">>
LowerChars == <<"a","b","c","d","e","f","g","h","i","j","k","l","m",
                "n","o","p","q","r","s","t","u","v","w","x","y","z">>
DigitChars == {"0","1","2","3","4","5","6","7","8","9"}

Lower(c) ==
    IF \E i \in DOMAIN UpperChars : UpperChars[i] = c
    THEN LowerChars[CHOOSE i \in DOMAIN UpperChars : UpperChars[i] = c]
    ELSE c

LowerStr(s) == [i \in 1..Len(s) |-> Lower(s[i])]

IsSpace(c) == c \in {" ", "\n", "\t"}

IsWordChar(c) ==
    \/ \E i \in DOMAIN LowerChars : LowerChars[i] = Lower(c)
    \/ c \in DigitChars
    \/ c = "_"

Min(S) == CHOOSE x \in S : \A y \in S : x <= y
Max(S) == CHOOSE x \in S : \A y \in S : x >= y

Strip(s) ==
    LET keep == {i \in 1..Len(s) : ~IsSpace(s[i])}
    IN  IF keep = {} THEN <<>> ELSE SubSeq(s, Min(keep), Max(keep))

RECURSIVE CollapseWs(_)
CollapseWs(s) ==
    IF s = <<>> THEN <<>>
    ELSE IF IsSpace(s[1])
         THEN LET rest == {i \in 1..Len(s) : ~IsSpace(s[i])}
              IN  IF rest = {} THEN <<" ">>
                  ELSE <<" ">> \o CollapseWs(SubSeq(s, Min(rest), Len(s)))
         ELSE <<s[1]>> \o CollapseWs(Tail(s))

StartsWith(s, p) == Len(p) <= Len(s) /\ SubSeq(s, 1, Len(p)) = p

Contains(s, sub) ==
    \E i \in 0..(Len(s) - Len(sub)) : SubSeq(s, i + 1, i + Len(sub)) = sub

RECURSIVE Replace(_, _, _)
Replace(s, pat, rep) ==
    IF s = <<>> THEN <<>>
    ELSE IF pat # <<>> /\ StartsWith(s, pat)
         THEN rep \o Replace(SubSeq(s, Len(pat) + 1, Len(s)), pat, rep)
         ELSE <<s[1]>> \o Replace(Tail(s), pat, rep)

RECURSIVE Join(_, _)
Join(parts, sep) ==
    IF parts = <<>> THEN <<>>
    ELSE IF Len(parts) = 1 THEN parts[1]
    ELSE parts[1] \o sep \o Join(Tail(parts), sep)

RECURSIVE SplitOn(_, _)
SplitOn(s, c) ==
    LET at == {i \in 1..Len(s) : s[i] = c}
    IN  IF at = {} THEN <<s>>
        ELSE <<SubSeq(s, 1, Min(at) - 1)>> \o SplitOn(SubSeq(s, Min(at) + 1, Len(s)), c)

tclean_dropstrip(s) == CollapseWs(s)

tclean(s) == Strip(CollapseWs(s))

-----------------------------------------------------------------------------
(* String literals of the source and of the test documents *)

s_empty == <<>>
s_sp == <<" ">>
s_nl == <<"\n">>
s_slash == <<"/">>
s_colon == <<":">>
s_dot == <<".">>
s_dotdot == <<".",".">>
s_wiki == <<"/","w","i","k","i","/">>
s_heroes == <<"h","e","r","o","e","s">>
s_Heroes == <<"H","e","r","o","e","s">>

-----------------------------------------------------------------------------
(* The document tree *)

El(tag) ==
    [tag |-> tag, depth |-> 0, text |-> <<>>, has |-> {}, id |-> <<>>,
     cls |-> {}, href |-> <<>>, src |-> <<>>, dsrc |-> <<>>]

Txt(s) == <<[El("#text") EXCEPT !.text = s]>>

Shift(nodes, k) == [i \in 1..Len(nodes) |-> [nodes[i] EXCEPT !.depth = @ + k]]

\* the element n with the node sequence kids as its content
Wrap(n, kids) == <<n>> \o Shift(kids, 1)

IsTagNode(n) == n.tag # "#text"

SubEnd(doc, i) ==
    LET later == {j \in (i + 1)..Len(doc) : doc[j].depth <= doc[i].depth}
    IN  IF later = {} THEN Len(doc) ELSE Min(later) - 1

Descendants(doc, i) == (i + 1)..SubEnd(doc, i)

Ancestors(doc, i) == {j \in 1..(i - 1) : i \in Descendants(doc, j)}

RECURSIVE Ordered(_)
Ordered(S) == IF S = {} THEN <<>> ELSE <<Min(S)>> \o Ordered(S \ {Min(S)})

\* bs4 Tag.get_text(separator, strip): the strings of the subtree, joined
RECURSIVE Pieces(_, _, _, _)
Pieces(doc, lo, hi, strip) ==
    IF lo > hi THEN <<>>
    ELSE LET rest == Pieces(doc, lo + 1, hi, strip)
             s == IF strip THEN Strip(doc[lo].text) ELSE doc[lo].text
         IN  IF IsTagNode(doc[lo]) THEN rest
             ELSE IF strip /\ s = <<>> THEN rest
             ELSE <<s>> \o rest

get_text(doc, i, sep, strip) == Join(Pieces(doc, i, SubEnd(doc, i), strip), sep)

\* soup.select("t1,t2,..."): the elements with one of the tags, document order
select_tags(doc, tags) == Ordered({i \in 1..Len(doc) : doc[i].tag \in tags})

\* Tag.find_parent(tags): index of the nearest such ancestor, 0 for None
find_parent(doc, i, tags) ==
    LET up == {j \in Ancestors(doc, i) : doc[j].tag \in tags}
    IN  IF up = {} THEN 0 ELSE Max(up)

-----------------------------------------------------------------------------
(* scraper_service.extract_section_node *)

\* "|".join(re.escape(t) for t in titles): the alternatives of the pattern;
\* the join of an empty list is the empty pattern
patt_alternatives(titles) ==
    IF titles = <<>> THEN {<<>>} ELSE {titles[i] : i \in 1..Len(titles)}

\* patt.search(text) with flags=re.I
patt_search_cs(titles, text) ==
    \E alt \in patt_alternatives(titles) : Contains(text, alt)

patt_search(titles, text) ==
    \E alt \in patt_alternatives(titles) : Contains(LowerStr(text), LowerStr(alt))

extract_section_node_last(doc, titles) ==
    LET hit == {h \in {i \in 1..Len(doc) : doc[i].tag \in {"h2", "h3", "h4"}} :
                    patt_search(titles, get_text(doc, h, s_sp, TRUE))}
    IN  IF hit = {} THEN 0 ELSE Max(hit)

extract_section_node(doc, titles) ==
    LET hit == {h \in {i \in 1..Len(doc) : doc[i].tag \in {"h2", "h3", "h4"}} :
                    patt_search(titles, get_text(doc, h, s_sp, TRUE))}
    IN  IF hit = {} THEN 0 ELSE Min(hit)

-----------------------------------------------------------------------------
(* urllib.parse.urljoin for a path-absolute reference without query or
   fragment: scheme and host of the base, dot segments of the path removed *)

Origin(base) ==
    LET sl == {i \in 1..Len(base) : base[i] = "/" /\ i > 1 /\ base[i - 1] # "/"
                                     /\ (i = Len(base) \/ base[i + 1] # "/")}
    IN  IF sl = {} THEN base ELSE SubSeq(base, 1, Min(sl) - 1)

RECURSIVE ResolveSegs(_, _)
ResolveSegs(segs, acc) ==
    IF segs = <<>> THEN acc
    ELSE IF Head(segs) = s_dotdot
         THEN ResolveSegs(Tail(segs), IF acc = <<>> THEN acc ELSE SubSeq(acc, 1, Len(acc) - 1))
    ELSE IF Head(segs) = s_dot THEN ResolveSegs(Tail(segs), acc)
    ELSE ResolveSegs(Tail(segs), Append(acc, Head(segs)))

urljoin_raw(base, url) == Origin(base) \o url

urljoin(base, url) ==
    IF url = <<>> THEN base
    ELSE LET segs == SplitOn(url, "/")
             res == ResolveSegs(segs, <<>>)
             res2 == IF segs[Len(segs)] \in {s_dot, s_dotdot} THEN Append(res, <<>>) ELSE res
             path == Join(res2, s_slash)
         IN  Origin(base) \o (IF path = <<>> THEN s_slash ELSE path)

-----------------------------------------------------------------------------
(* scraper_service.find_heroes_section, extract_hero_links *)

\* re.search(r"\bHeroes\b", text, re.I)
heroes_word_search(text) ==
    \E i \in 1..(Len(text) - 5) :
        /\ LowerStr(SubSeq(text, i, i + 5)) = s_heroes
        /\ (i = 1 \/ ~IsWordChar(text[i - 1]))
        /\ (i + 5 = Len(text) \/ ~IsWordChar(text[i + 6]))

find_heroes_section(doc) ==
    LET spans == {i \in 1..Len(doc) : doc[i].tag = "span" /\ "id" \in doc[i].has
                                       /\ LowerStr(doc[i].id) = s_heroes}
        h == IF spans = {} THEN 0 ELSE find_parent(doc, Min(spans), {"h2", "h3"})
        byText == {i \in 1..Len(doc) : doc[i].tag \in {"h2", "h3"}
                                        /\ heroes_word_search(get_text(doc, i, s_sp, TRUE))}
    IN  IF h # 0 THEN h
        ELSE IF byText = {} THEN 0 ELSE Min(byText)

s_p_Heroes == <<"/","w","i","k","i","/","H","e","r","o","e","s">>
s_p_Rarity == <<"/","w","i","k","i","/","R","a","r","i","t","y">>
s_p_Class == <<"/","w","i","k","i","/","C","l","a","s","s">>
s_p_Type == <<"/","w","i","k","i","/","T","y","p","e">>
s_p_Faction == <<"/","w","i","k","i","/","F","a","c","t","i","o","n">>
s_p_Union == <<"/","w","i","k","i","/","U","n","i","o","n">>

ignored_paths == {s_p_Heroes, s_p_Rarity, s_p_Class, s_p_Type, s_p_Faction, s_p_Union}

\* the three `continue` filters on the raw href of an anchor
link_rejected_nocolon(href) ==
    \/ ~StartsWith(href, s_wiki)
    \/ \E p \in ignored_paths : StartsWith(href, p)

link_rejected(href) ==
    \/ ~StartsWith(href, s_wiki)
    \/ Contains(Replace(href, s_wiki, <<>>), s_colon)
    \/ \E p \in ignored_paths : StartsWith(href, p)

\* one pass of the inner loop body, for the anchor at index a;
\* st = [seen, out]
link_step_rawseen(doc, base, a, st) ==
    LET name == tclean(get_text(doc, a, s_sp, TRUE))
        href == urljoin(base, doc[a].href)
    IN  IF name = <<>> \/ ~StartsWith(doc[a].href, s_wiki) THEN st
        ELSE IF doc[a].href \in st.seen THEN st
        ELSE IF link_rejected(doc[a].href) THEN st
        ELSE [seen |-> st.seen \cup {doc[a].href}, out |-> Append(st.out, href)]

link_step(doc, base, a, st) ==
    LET name == tclean(get_text(doc, a, s_sp, TRUE))
        href == urljoin(base, doc[a].href)
    IN  IF name = <<>> \/ ~StartsWith(doc[a].href, s_wiki) THEN st
        ELSE IF href \in st.seen THEN st
        ELSE IF link_rejected(doc[a].href) THEN st
        ELSE [seen |-> st.seen \cup {href}, out |-> Append(st.out, href)]

RECURSIVE link_anchors(_, _, _, _)
link_anchors(doc, base, as, st) ==
    IF as = <<>> THEN st
    ELSE link_anchors(doc, base, Tail(as), link_step(doc, base, Head(as), st))

\* node.find_all("a", href=True): the anchors below the node, document order
anchors_below(doc, node) ==
    Ordered({a \in Descendants(doc, node) : doc[a].tag = "a" /\ "href" \in doc[a].has})

\* the outer loop over root.find_all_next(), from index j on
RECURSIVE link_nodes(_, _, _, _)
link_nodes(doc, base, j, st) ==
    IF j > Len(doc) THEN st
    ELSE IF ~IsTagNode(doc[j]) THEN link_nodes(doc, base, j + 1, st)
    ELSE IF doc[j].tag \in {"h2", "h3"} THEN st
    ELSE link_nodes(doc, base, j + 1, link_anchors(doc, base, anchors_below(doc, j), st))

\* fetched = FALSE: get_soup raised, caught by the except clause
extract_hero_links(faction_url, doc, fetched) ==
    IF ~fetched THEN <<>>
    ELSE LET root == find_heroes_section(doc)
         IN  IF root = 0 THEN <<>>
             ELSE link_nodes(doc, faction_url, root + 1, [seen |-> {}, out |-> <<>>]).out

-----------------------------------------------------------------------------
(* Overview pages given to extract_hero_links *)

MaxItems == 4

s_base == <<"h","t","t","p","s",":","/","/","w",".","i","o","/","w","i","k","i","/","F">>
s_hA == <<"/","w","i","k","i","/","A">>
s_hDotA == <<"/","w","i","k","i","/",".","/","A">>
s_hB == <<"/","w","i","k","i","/","B">>
s_hFile == <<"/","w","i","k","i","/","F","i","l","e",":","A">>
s_hTypes == <<"/","w","i","k","i","/","T","y","p","e","s">>
s_hExt == <<"/","w","/","A">>
s_Skills == <<"S","k","i","l","l","s">>
s_Other == <<"O","t","h","e","r">>
s_A == <<"A">>

Anchor(href, named) ==
    Wrap([El("a") EXCEPT !.has = {"href"}, !.href = href],
         IF named THEN Txt(s_A) ELSE <<[El("img") EXCEPT !.has = {"src"}, !.src = s_hExt]>>)

Heading(tag, text) == Wrap(El(tag), Txt(text))

HeadlineHeading(tag, id, text) ==
    Wrap(El(tag), Wrap([El("span") EXCEPT !.has = {"id"}, !.id = id, !.cls = {"mw-headline"}],
                       Txt(text)))

LinkItemKinds ==
    {[k |-> "div", href |-> <<>>, named |-> FALSE], [k |-> "h2", href |-> <<>>, named |-> FALSE]}
    \cup {[k |-> "a", href |-> h, named |-> TRUE] :
             h \in {s_hA, s_hDotA, s_hB, s_hFile, s_p_Heroes, s_hTypes, s_hExt}}
    \cup {[k |-> "a", href |-> s_hA, named |-> FALSE]}

\* an item at depth 1 lies inside the div wrapper that precedes it
LinkDepthsOk(ks, ds) ==
    \A i \in 1..Len(ks) :
        /\ ks[i].k = "div" => ds[i] = 0
        /\ ds[i] = 1 => i > 1 /\ (ds[i - 1] = 1 \/ ks[i - 1].k = "div")

LinkItemsOf(ks, ds) == [i \in 1..Len(ks) |-> [kind |-> ks[i], d |-> ds[i]]]

LinkItemNodes(it) ==
    Shift(CASE it.kind.k = "div" -> <<El("div")>>
            [] it.kind.k = "h2" -> Heading("h2", s_Other)
            [] OTHER -> Anchor(it.kind.href, it.kind.named),
          it.d)

RECURSIVE LinkItemsNodes(_)
LinkItemsNodes(its) ==
    IF its = <<>> THEN <<>> ELSE LinkItemNodes(Head(its)) \o LinkItemsNodes(Tail(its))

\* how the page introduces its Heroes section
MainLinkHead == HeadlineHeading("h2", s_Heroes, s_Heroes)

OtherLinkHeads ==
    { Wrap(El("p"), Anchor(s_hB, TRUE)) \o Heading("h3", <<"A","l","l"," ","h","e","r","o","e","s">>),
      Heading("h2", s_Skills),
      HeadlineHeading("h4", s_heroes, s_Heroes) }

LinkPage(hd, its) ==
    Wrap([El("div") EXCEPT !.cls = {"mw-parser-output"}], hd \o LinkItemsNodes(its))

InitPure(f, doc, a) ==
    /\ fn = f
    /\ soup = doc
    /\ args = a
    /\ ret = <<>>
    /\ called = FALSE
    /\ sh = <<>>
    /\ WsIdle

InitLinks ==
    \/ \E n \in 0..MaxItems : \E ks \in [1..n -> LinkItemKinds] : \E ds \in [1..n -> {0, 1}] :
          /\ LinkDepthsOk(ks, ds)
          /\ \E hd \in {MainLinkHead} \cup (IF n <= 2 THEN OtherLinkHeads ELSE {}) :
                InitPure("extract_hero_links", LinkPage(hd, LinkItemsOf(ks, ds)),
                         [faction_url |-> s_base, fetched |-> TRUE])
    \/ InitPure("extract_hero_links", <<>>, [faction_url |-> s_base, fetched |-> FALSE])

Call_extract_hero_links ==
    /\ fn = "extract_hero_links"
    /\ ~called
    /\ ret' = extract_hero_links(args.faction_url, soup, args.fetched)
    /\ called' = TRUE
    /\ UNCHANGED <<fn, soup, args, sh>>
    /\ UNCHANGED wsVars

NextLinks == Call_extract_hero_links

SpecLinks == InitLinks /\ [][NextLinks]_vars

-----------------------------------------------------------------------------
(* Properties of extract_hero_links *)

LinksReturned == fn = "extract_hero_links" /\ called /\ args.fetched

HeroesRoot == find_heroes_section(soup)

\* the first level-2/3 heading after the Heroes heading, in document order
HeroesStop ==
    LET hs == {j \in (HeroesRoot + 1)..Len(soup) : soup[j].tag \in {"h2", "h3"}}
    IN  IF hs = {} THEN Len(soup) + 1 ELSE Min(hs)

Anchors == {a \in 1..Len(soup) : soup[a].tag = "a" /\ "href" \in soup[a].has}

Resolved(a) == urljoin(args.faction_url, soup[a].href)

\* the anchors the scan keeps as candidates: reached through an element of
\* the scanned range, with a display text and a target passing the filters
Collected ==
    {a \in Anchors :
        /\ \E j \in (HeroesRoot + 1)..(HeroesStop - 1) :
              IsTagNode(soup[j]) /\ a \in Descendants(soup, j)
        /\ tclean(get_text(soup, a, s_sp, TRUE)) # <<>>
        /\ ~link_rejected(soup[a].href)}

RECURSIVE DedupFirst(_, _)
DedupFirst(s, seen) ==
    IF s = <<>> THEN <<>>
    ELSE IF Head(s) \in seen THEN DedupFirst(Tail(s), seen)
    ELSE <<Head(s)>> \o DedupFirst(Tail(s), seen \cup {Head(s)})

CollectedUrls == LET c == Ordered(Collected) IN [i \in 1..Len(c) |-> Resolved(c[i])]

\* C5: the returned list never holds the same resolved absolute URL twice;
\* of the collected anchors resolving to one URL exactly the first yields an
\* entry, and the kept URLs are in document (encounter) order.
C5_DedupFirstInOrder ==
    LinksReturned /\ HeroesRoot # 0 =>
        /\ \A i, j \in 1..Len(ret) : i # j => ret[i] # ret[j]
        /\ ret = DedupFirst(CollectedUrls, {})

C5_Witness ==
    /\ LinksReturned
    /\ Len(ret) = 2
    /\ \E a, b, c \in Collected :
          /\ a < b /\ b < c
          /\ Resolved(a) = Resolved(c)
          /\ soup[a].href # soup[c].href
          /\ Resolved(b) # Resolved(a)

\* C6: every returned URL comes from a link whose target begins with
\* "/wiki/", has no ":" after that prefix and is not a denylisted index page.
C6_OnlyDetailLinks ==
    LinksReturned =>
        \A i \in 1..Len(ret) :
            \E a \in Anchors :
                /\ a > HeroesRoot
                /\ Resolved(a) = ret[i]
                /\ StartsWith(soup[a].href, s_wiki)
                /\ ~Contains(SubSeq(soup[a].href, Len(s_wiki) + 1, Len(soup[a].href)), s_colon)
                /\ soup[a].href \notin ignored_paths

C6_Witness ==
    /\ LinksReturned
    /\ ret # <<>>
    /\ \E a, b \in Anchors :
          /\ a > HeroesRoot /\ b > HeroesRoot
          /\ a < HeroesStop /\ b < HeroesStop
          /\ Contains(soup[a].href, s_colon)
          /\ soup[b].href \in ignored_paths

\* C7: every anchor after the Heroes heading and before the next level-2/3
\* heading whose target is a detail page has its resolved URL in the result.
C7_AllRangeLinksCollected ==
    LinksReturned /\ HeroesRoot # 0 =>
        \A a \in Anchors :
            ( /\ a > HeroesRoot /\ a < HeroesStop
              /\ StartsWith(soup[a].href, s_wiki)
              /\ ~Contains(SubSeq(soup[a].href, Len(s_wiki) + 1, Len(soup[a].href)), s_colon)
              /\ soup[a].href \notin ignored_paths )
            => \E i \in 1..Len(ret) : ret[i] = Resolved(a)

\* C8: no returned URL comes from an anchor at or after the first level-2/3
\* heading that follows the Heroes heading.
C8_BoundedByNextHeading ==
    LinksReturned =>
        \A i \in 1..Len(ret) :
            \E a \in Anchors :
                a > HeroesRoot /\ a < HeroesStop /\ Resolved(a) = ret[i]

-----------------------------------------------------------------------------
(* Documents and title lists given to extract_section_node *)

MaxHeadings == 2

s_SKILLS == <<"S","K","I","L","L","S">>
s_Trivia == <<"T","r","i","v","i","a">>
s_trivia == <<"t","r","i","v","i","a">>
s_Story == <<"S","t","o","r","y">>
s_Background == <<"B","a","c","k","g","r","o","u","n","d">>
s_MySkills == <<"M","y"," ","s","k","i","l","l","s">>

SectionTags == {"h1", "h2", "h3", "h4", "p"}

\* the content of a heading or paragraph: one string, or two inline elements
SectionContents ==
    { Txt(s_Skills), Txt(s_SKILLS), Txt(s_MySkills), Txt(s_Story),
      Wrap(El("span"), Txt(<<"T","r","i">>)) \o Wrap(El("b"), Txt(<<"v","i","a">>)) }

SectionTitleLists ==
    { <<>>, <<s_Skills>>, <<s_trivia>>, <<s_Background, s_Story>>, <<s_Other>> }

RECURSIVE SectionNodes(_, _)
SectionNodes(tags, contents) ==
    IF tags = <<>> THEN <<>>
    ELSE Wrap(El(Head(tags)), Head(contents)) \o SectionNodes(Tail(tags), Tail(contents))

InitSection ==
    \E n \in 0..MaxHeadings : \E tags \in [1..n -> SectionTags] :
        \E contents \in [1..n -> SectionContents] : \E titles \in SectionTitleLists :
            InitPure("extract_section_node",
                     Wrap([El("div") EXCEPT !.cls = {"mw-parser-output"}],
                          SectionNodes(tags, contents)),
                     [titles |-> titles])

Call_extract_section_node ==
    /\ fn = "extract_section_node"
    /\ ~called
    /\ ret' = extract_section_node(soup, args.titles)
    /\ called' = TRUE
    /\ UNCHANGED <<fn, soup, args, sh>>
    /\ UNCHANGED wsVars

NextSection == Call_extract_section_node

SpecSection == InitSection /\ [][NextSection]_vars

\* the level-2/3/4 headings whose text matches one of the candidate titles,
\* case-insensitively
MatchingHeadings ==
    {h \in 1..Len(soup) :
        /\ soup[h].tag \in {"h2", "h3", "h4"}
        /\ \E i \in 1..Len(args.titles) :
              Contains(LowerStr(get_text(soup, h, s_sp, TRUE)), LowerStr(args.titles[i]))}

\* C9: extract_section_node returns the first level-2/3/4 heading whose text
\* matches one of the candidate titles, and none when no heading matches any.
C9_FirstMatchingHeading ==
    fn = "extract_section_node" /\ called =>
        ret = IF MatchingHeadings = {} THEN 0 ELSE Min(MatchingHeadings)

\* the same statement for non-empty title lists
C9_NonEmptyTitles ==
    fn = "extract_section_node" /\ called /\ args.titles # <<>> =>
        ret = IF MatchingHeadings = {} THEN 0 ELSE Min(MatchingHeadings)

-----------------------------------------------------------------------------
(* scraper_service.extract_roles_from_infobox.  An infobox map (a dict) is
   the sequence of its (label, value) items in insertion order. *)

s_primary == <<"p","r","i","m","a","r","y">>
s_secondary == <<"s","e","c","o","n","d","a","r","y">>
s_primary_role == <<"p","r","i","m","a","r","y"," ","r","o","l","e">>
s_secondary_role == <<"s","e","c","o","n","d","a","r","y"," ","r","o","l","e">>
s_role == <<"r","o","l","e">>
s_roles == <<"r","o","l","e","s">>
s_classification == <<"c","l","a","s","s","i","f","i","c","a","t","i","o","n">>
s_k_Role == <<"R","o","l","e">>
s_k_PrimaryRole == <<"P","r","i","m","a","r","y"," ","R","o","l","e">>
s_k_SecondaryRole == <<"S","e","c","o","n","d","a","r","y"," ","R","o","l","e">>
s_k_Faction == <<"F","a","c","t","i","o","n">>
s_k_Classification == <<"C","l","a","s","s","i","f","i","c","a","t","i","o","n">>
s_Tank == <<"T","a","n","k">>
s_DPS == <<"D","P","S">>
s_Support == <<"S","u","p","p","o","r","t">>
s_PrimaryColon == <<"P","r","i","m","a","r","y",":"," ">>
s_SecondaryColon == <<" ","S","e","c","o","n","d","a","r","y",":"," ">>
s_v_List == <<"T","a","n","k",","," ","D","P","S"," ","/"," ","S","u","p","p","o","r","t">>
s_v_Dash == <<"p","r","i","m","a","r","y"," ","-"," ","T","a","n","k",";"," ","s","e","c","o","n","d","a","r","y"," ","-"," ","D","P","S">>
s_v_SecOnly == <<"S","e","c","o","n","d","a","r","y",":"," ","D","P","S">>
s_Light == <<"L","i","g","h","t">>
s_commasp == <<","," ">>

\* stands for the one character U+2022
c_bullet == "BULLET"

\* inf[key] and inf.get(key, "")
inf_get(inf, key) ==
    LET at == {i \in 1..Len(inf) : inf[i].k = key}
    IN  IF at = {} THEN <<>> ELSE inf[Min(at)].v

\* the maximal run of characters outside excl, from index i on
RunFrom(text, i, excl) ==
    LET stops == {j \in i..Len(text) : text[j] \in excl}
    IN  SubSeq(text, i, IF stops = {} THEN Len(text) ELSE Min(stops) - 1)

\* the tail  \s*[:\-]\s*([^;|<bullet>\n]+)  of the role patterns, tried at
\* index j: whether it matches and what group(1) is
role_tail(text, j) ==
    LET nows == {x \in j..Len(text) : ~IsSpace(text[x])}
        q == IF nows = {} THEN Len(text) + 1 ELSE Min(nows)
        nows2 == {x \in (q + 1)..Len(text) : ~IsSpace(text[x])}
        s0 == IF nows2 = {} THEN Len(text) + 1 ELSE Min(nows2)
        run == RunFrom(text, s0, {";", "|", c_bullet, "\n"})
    IN  IF q > Len(text) \/ text[q] \notin {":", "-"} THEN [ok |-> FALSE, g |-> <<>>]
        ELSE IF run # <<>> THEN [ok |-> TRUE, g |-> run]
        ELSE IF \E x \in (q + 1)..(s0 - 1) : text[x] # "\n"
             THEN [ok |-> TRUE, g |-> <<" ">>]
        ELSE [ok |-> FALSE, g |-> <<>>]

\* re.search(r"(?i)<word>\s*[:\-]\s*([^;|<bullet>\n]+)", text): group(1).strip()
\* of the leftmost match, "" when there is none
role_search(text, word) ==
    LET hits == {i \in 1..(Len(text) - Len(word) + 1) :
                    /\ LowerStr(SubSeq(text, i, i + Len(word) - 1)) = word
                    /\ role_tail(text, i + Len(word)).ok}
    IN  IF hits = {} THEN <<>>
        ELSE Strip(role_tail(text, Min(hits) + Len(word)).g)

ROLE_SEP == {",", "/", c_bullet, "|", ";"}

\* ROLE_SEP_RE.split(text)
RECURSIVE role_split(_)
role_split(text) ==
    LET seps == {i \in 1..Len(text) : text[i] \in ROLE_SEP}
    IN  IF seps = {} THEN <<text>>
        ELSE LET q == Min(seps)
                 before == {x \in 1..(q - 1) : ~IsSpace(text[x])}
                 after == {x \in (q + 1)..Len(text) : ~IsSpace(text[x])}
                 piece == IF before = {} THEN <<>> ELSE SubSeq(text, 1, Max(before))
                 rest == IF after = {} THEN <<>> ELSE SubSeq(text, Min(after), Len(text))
             IN  <<piece>> \o role_split(rest)

\* step 1: the loop over inf.items(), from item i on
RECURSIVE roles_explicit(_, _, _)
roles_explicit(inf, i, out) ==
    IF i > Len(inf) THEN out
    ELSE LET lk == LowerStr(inf[i].k)
         IN  roles_explicit(inf, i + 1,
                IF Contains(lk, s_primary_role) \/ Strip(lk) = s_primary
                THEN [out EXCEPT !.primary = inf[i].v]
                ELSE IF Contains(lk, s_secondary_role) \/ Strip(lk) = s_secondary
                THEN [out EXCEPT !.secondary = inf[i].v]
                ELSE out)

extract_roles_from_infobox(inf) ==
    LET out1 == roles_explicit(inf, 1, [primary |-> <<>>, secondary |-> <<>>])
        byRole == {i \in 1..Len(inf) : LowerStr(inf[i].k) \in {s_role, s_roles}}
        byClass == {i \in 1..Len(inf) : Contains(LowerStr(inf[i].k), s_classification)}
        role_key == IF byRole # {} THEN Min(byRole)
                    ELSE IF byClass # {} THEN Min(byClass) ELSE 0
        text == inf[role_key].v
        out2 == [primary |-> role_search(text, s_primary),
                 secondary |-> role_search(text, s_secondary)]
        parts == SelectSeq(role_split(text), LAMBDA x : x # <<>>)
    IN  IF out1.primary # <<>> \/ out1.secondary # <<>> THEN out1
        ELSE IF role_key = 0 THEN out1
        ELSE IF out2.primary # <<>> \/ out2.secondary # <<>> THEN out2
        ELSE IF parts # <<>>
             THEN [primary |-> parts[1],
                   secondary |-> IF Len(parts) > 1 THEN Join(Tail(parts), s_commasp) ELSE <<>>]
        ELSE out1

-----------------------------------------------------------------------------
(* Infobox maps given to extract_roles_from_infobox *)

MaxInfobox == 2

RoleWords == {s_Tank, s_DPS, s_Support}

RoleLabels == {s_k_Role, s_k_Classification, s_k_PrimaryRole, s_k_SecondaryRole, s_k_Faction}

RoleValues ==
    {s_PrimaryColon \o x \o s_SecondaryColon \o y : x, y \in {s_Tank, s_DPS}}
    \cup {s_v_List, s_v_Dash, s_v_SecOnly, s_Tank, <<>>}

InitRoles ==
    \E n \in 0..MaxInfobox : \E ks \in [1..n -> RoleLabels] : \E vs \in [1..n -> RoleValues] :
        /\ \A i, j \in 1..n : i # j => ks[i] # ks[j]
        /\ InitPure("extract_roles_from_infobox", <<>>,
                    [inf |-> [i \in 1..n |-> [k |-> ks[i], v |-> vs[i]]]])

Call_extract_roles_from_infobox ==
    /\ fn = "extract_roles_from_infobox"
    /\ ~called
    /\ ret' = extract_roles_from_infobox(args.inf)
    /\ called' = TRUE
    /\ UNCHANGED <<fn, soup, args, sh>>
    /\ UNCHANGED wsVars

NextRoles == Call_extract_roles_from_infobox

SpecRoles == InitRoles /\ [][NextRoles]_vars

HasExplicitRoleLabel(inf) ==
    \E i \in 1..Len(inf) :
        LET lk == LowerStr(inf[i].k)
        IN  \/ Contains(lk, s_primary_role) \/ Strip(lk) = s_primary
            \/ Contains(lk, s_secondary_role) \/ Strip(lk) = s_secondary

\* C10: with no explicit primary/secondary label and a Role field of the form
\* "Primary: X Secondary: Y", primary is exactly X and secondary exactly Y.
C10_PrimarySecondaryForm ==
    fn = "extract_roles_from_infobox" /\ called /\ ~HasExplicitRoleLabel(args.inf) =>
        \A x, y \in RoleWords :
            inf_get(args.inf, s_k_Role) = s_PrimaryColon \o x \o s_SecondaryColon \o y
            => ret = [primary |-> x, secondary |-> y]

\* what the code returns for that form: the primary group runs on through
\* the Secondary part
C10_CodeReturns ==
    fn = "extract_roles_from_infobox" /\ called /\ ~HasExplicitRoleLabel(args.inf) =>
        \A x, y \in RoleWords :
            inf_get(args.inf, s_k_Role) = s_PrimaryColon \o x \o s_SecondaryColon \o y
            => ret = [primary |-> x \o s_SecondaryColon \o y, secondary |-> y]

-----------------------------------------------------------------------------
(* More of the bs4 API *)

s_firstHeading == <<"f","i","r","s","t","H","e","a","d","i","n","g">>
s_toc == <<"t","o","c">>
s_Voice_Lines == <<"V","o","i","c","e","_","L","i","n","e","s">>
s_Other_Quotes == <<"O","t","h","e","r","_","Q","u","o","t","e","s">>
s_VoiceLines == <<"V","o","i","c","e"," ","L","i","n","e","s">>
s_OtherQuotes == <<"O","t","h","e","r"," ","Q","u","o","t","e","s">>
s_Unknown == <<"U","n","k","n","o","w","n">>
s_Personality == <<"P","e","r","s","o","n","a","l","i","t","y">>
s_name == <<"n","a","m","e">>
s_description == <<"d","e","s","c","r","i","p","t","i","o","n">>
s_unlock == <<"u","n","l","o","c","k">>
s_icon == <<"i","c","o","n">>
s_level == <<"l","e","v","e","l">>
s_EngravingAbilities == <<"E","n","g","r","a","v","i","n","g"," ","A","b","i","l","i","t","i","e","s">>
s_Engraving == <<"E","n","g","r","a","v","i","n","g">>
s_FurnitureSetBonuses == <<"F","u","r","n","i","t","u","r","e"," ","S","e","t"," ","B","o","n","u","s","e","s">>
s_Furniture == <<"F","u","r","n","i","t","u","r","e">>
s_signature == <<"s","i","g","n","a","t","u","r","e">>
s_item == <<"i","t","e","m">>
s_skill == <<"s","k","i","l","l">>
s_nlnl == <<"\n","\n">>

HasClass(n, c) == c \in n.cls

\* tag names that str.startswith("h") accepts
HNames == {"h1", "h2", "h3", "h4", "h5", "h6", "hr", "head", "header", "hgroup", "html"}

\* scraper_service.heading_level
heading_level(tag) == IF tag \in {"h1", "h2", "h3", "h4", "h5", "h6"}
                      THEN CHOOSE k \in 1..6 : tag = <<"h1", "h2", "h3", "h4", "h5", "h6">>[k]
                      ELSE 99

\* index of the first element satisfying P among the indices S, 0 for None
FirstOf(S) == IF S = {} THEN 0 ELSE Min(S)
LastOf(S) == IF S = {} THEN 0 ELSE Max(S)

\* Tag.find / select_one below node i
find_tag(doc, i, tags) == FirstOf({j \in Descendants(doc, i) : doc[j].tag \in tags})
find_class(doc, i, c) == FirstOf({j \in Descendants(doc, i) : HasClass(doc[j], c)})

\* Tag.find_next(tag), Tag.find_all_next(tags)
find_next(doc, i, tags) == FirstOf({j \in (i + 1)..Len(doc) : doc[j].tag \in tags})

\* the document without the subtrees rooted at the indices in roots
RemoveSubtrees(doc, roots) ==
    LET gone == roots \cup UNION {Descendants(doc, r) : r \in roots}
        keep == Ordered((1..Len(doc)) \ gone)
    IN  [k \in 1..Len(keep) |-> doc[keep[k]]]

\* dict[key] = value: a present key keeps its place
DictSet(d, key, value) ==
    IF \E i \in 1..Len(d) : d[i].k = key
    THEN [i \in 1..Len(d) |-> IF d[i].k = key THEN [k |-> key, v |-> value] ELSE d[i]]
    ELSE Append(d, [k |-> key, v |-> value])

\* lines with later duplicates dropped (the seen/out loops)
RECURSIVE dedup_lines(_, _)
dedup_lines(lines, seen) ==
    IF lines = <<>> THEN <<>>
    ELSE IF Head(lines) \in seen THEN dedup_lines(Tail(lines), seen)
    ELSE <<Head(lines)>> \o dedup_lines(Tail(lines), seen \cup {Head(lines)})

\* [tclean(x.get_text(sep, strip)) for x in idxs], empty texts left out
RECURSIVE clean_texts(_, _, _, _)
clean_texts(doc, idxs, sep, strip) ==
    IF idxs = <<>> THEN <<>>
    ELSE LET txt == tclean(get_text(doc, Head(idxs), sep, strip))
         IN  (IF txt = <<>> THEN <<>> ELSE <<txt>>) \o clean_texts(doc, Tail(idxs), sep, strip)

-----------------------------------------------------------------------------
(* scraper_service.parse_infobox_map *)

RECURSIVE infobox_rows(_, _, _)
infobox_rows(doc, rows, data) ==
    IF rows = <<>> THEN data
    ELSE LET lab == find_class(doc, Head(rows), "pi-data-label")
             val == find_class(doc, Head(rows), "pi-data-value")
         IN  infobox_rows(doc, Tail(rows),
                IF lab # 0 /\ val # 0
                THEN DictSet(data, tclean(get_text(doc, lab, <<>>, FALSE)),
                                   tclean(get_text(doc, val, s_sp, TRUE)))
                ELSE data)

parse_infobox_map(doc) ==
    infobox_rows(doc,
        Ordered({i \in 1..Len(doc) :
                    /\ HasClass(doc[i], "pi-data")
                    /\ \E a \in Ancestors(doc, i) : HasClass(doc[a], "portable-infobox")}),
        <<>>)

-----------------------------------------------------------------------------
(* scraper_service.extract_section_text *)

RECURSIVE section_text_loop(_, _)
section_text_loop(doc, j) ==
    IF j > Len(doc) THEN <<>>
    ELSE IF ~IsTagNode(doc[j]) THEN section_text_loop(doc, j + 1)
    ELSE IF doc[j].tag \in HNames THEN <<>>
    ELSE IF doc[j].tag \in {"p", "li", "blockquote"}
         THEN clean_texts(doc, <<j>>, s_sp, TRUE) \o section_text_loop(doc, j + 1)
    ELSE section_text_loop(doc, j + 1)

extract_section_text(doc, titles) ==
    LET start == extract_section_node(doc, titles)
    IN  IF start = 0 THEN <<>> ELSE Join(section_text_loop(doc, start + 1), s_nl)

-----------------------------------------------------------------------------
(* scraper_service.extract_intro_text: returns the text and leaves the
   document with the nested infobox fragments of its paragraphs decomposed *)

RECURSIVE intro_loop(_, _, _, _)
intro_loop(doc, content, j, out) ==
    IF j > SubEnd(doc, content) THEN [text |-> Join(out, s_nl), soup |-> doc]
    ELSE LET n == doc[j]
             next == SubEnd(doc, j) + 1
         IN  IF ~IsTagNode(n) THEN intro_loop(doc, content, next, out)
             ELSE IF n.tag = "aside" \/ (n.tag = "div" /\ HasClass(n, "portable-infobox"))
                  THEN intro_loop(doc, content, next, out)
             ELSE IF n.tag = "p"
                  THEN LET bad == {b \in Descendants(doc, j) :
                                      doc[b].tag = "aside" \/ HasClass(doc[b], "portable-infobox")}
                           doc2 == RemoveSubtrees(doc, bad)
                       IN  intro_loop(doc2, content, SubEnd(doc2, j) + 1,
                                      out \o clean_texts(doc2, <<j>>, s_sp, TRUE))
             ELSE IF n.tag = "h2" THEN [text |-> Join(out, s_nl), soup |-> doc]
             ELSE IF n.tag = "div" /\ "id" \in n.has /\ n.id = s_toc
                  THEN [text |-> Join(out, s_nl), soup |-> doc]
             ELSE intro_loop(doc, content, next, out)

extract_intro_text(doc) ==
    LET content == FirstOf({i \in 1..Len(doc) : HasClass(doc[i], "mw-parser-output")})
    IN  IF content = 0 THEN [text |-> <<>>, soup |-> doc]
        ELSE intro_loop(doc, content, content + 1, <<>>)

-----------------------------------------------------------------------------
(* scraper_service.extract_quotes *)

gather_by_id_or_text(doc, anchor_id, text_keyword) ==
    LET byId == FirstOf({i \in 1..Len(doc) :
                            doc[i].tag = "span" /\ "id" \in doc[i].has /\ doc[i].id = anchor_id})
        h == FirstOf({i \in 1..Len(doc) :
                        /\ doc[i].tag \in {"h2", "h3", "h4"}
                        /\ Contains(LowerStr(get_text(doc, i, s_sp, TRUE)), LowerStr(text_keyword))})
        headline == IF h = 0 THEN 0
                    ELSE FirstOf({j \in Descendants(doc, h) :
                                    doc[j].tag = "span" /\ HasClass(doc[j], "mw-headline")})
        span == IF byId # 0 THEN byId ELSE IF headline # 0 THEN headline ELSE h
        htag == IF span = 0 THEN 0
                ELSE IF doc[span].tag \in {"h2", "h3", "h4"} THEN span
                ELSE find_parent(doc, span, {"h2", "h3", "h4"})
        ul == IF htag = 0 THEN 0 ELSE find_next(doc, htag, {"ul"})
    IN  IF ul = 0 THEN <<>>
        ELSE clean_texts(doc, Ordered({j \in Descendants(doc, ul) : doc[j].tag = "li"}),
                         <<>>, FALSE)

quotes_concat_nodedup(doc) ==
    gather_by_id_or_text(doc, s_Voice_Lines, s_VoiceLines)
        \o gather_by_id_or_text(doc, s_Other_Quotes, s_OtherQuotes)

quote_lines(doc) ==
    dedup_lines(gather_by_id_or_text(doc, s_Voice_Lines, s_VoiceLines)
                    \o gather_by_id_or_text(doc, s_Other_Quotes, s_OtherQuotes), {})

extract_quotes(doc) == Join(quote_lines(doc), s_nl)

-----------------------------------------------------------------------------
(* scraper_service.extract_skills_from_table, extract_skills_boxes,
   extract_skills.  A row (a dict) is a function from its keys. *)

\* [tclean(c.get_text(" ", strip=True)).lower() for c in cells]
cell_texts(doc, cells) ==
    [i \in 1..Len(cells) |-> LowerStr(tclean(get_text(doc, cells[i], s_sp, TRUE)))]

\* tb.select("tr th")
table_ths(doc, tb) ==
    Ordered({c \in Descendants(doc, tb) :
                doc[c].tag = "th" /\ \E r \in Ancestors(doc, c) : r > tb /\ doc[r].tag = "tr"})

\* tb.select("tr")
table_trs(doc, tb) == Ordered({r \in Descendants(doc, tb) : doc[r].tag = "tr"})

\* tr.find_all(["th", "td"])
row_cells(doc, tr) == Ordered({c \in Descendants(doc, tr) : doc[c].tag \in {"th", "td"}})

\* tb.find_previous(lambda tag: tag.name.startswith("h"))
prev_h(doc, tb) == LastOf({j \in 1..(tb - 1) : IsTagNode(doc[j]) /\ doc[j].tag \in HNames})

\* idx_of(key): position (from 1) of the first header cell containing key,
\* 0 for None
idx_of(cells, key) == FirstOf({i \in 1..Len(cells) : Contains(cells[i], key)})

\* img.get("data-src") or img.get("src") or ""
img_source(n) ==
    IF "data-src" \in n.has /\ n.dsrc # <<>> THEN n.dsrc
    ELSE IF "src" \in n.has /\ n.src # <<>> THEN n.src
    ELSE <<>>

cell_icon(doc, cells, icon_idx) ==
    IF icon_idx # 0 /\ Len(cells) >= icon_idx
    THEN LET img == find_tag(doc, cells[icon_idx], {"img"})
         IN  IF img = 0 THEN <<>> ELSE img_source(doc[img])
    ELSE <<>>

cell_text(doc, cells, idx) ==
    IF idx # 0 /\ Len(cells) >= idx THEN tclean(get_text(doc, cells[idx], s_sp, TRUE)) ELSE <<>>

tables_after(doc, i) == Ordered({t \in (i + 1)..Len(doc) : doc[t].tag = "table"})

skills_headers_ok(headers) ==
    /\ \E i \in 1..Len(headers) : Contains(headers[i], s_name)
    /\ \E i \in 1..Len(headers) : Contains(headers[i], s_description)

engraving_headers_ok(headers) ==
    /\ \/ \E i \in 1..Len(headers) : Contains(headers[i], s_unlock)
       \/ \E i \in 1..Len(headers) : Contains(headers[i], s_level)
    /\ \E i \in 1..Len(headers) : Contains(headers[i], s_description)

\* the table loops of extract_skills_from_table (kind "skills") and of
\* extract_engraving_rows (kind "engraving"): the first table after the
\* heading that qualifies, 0 when the scan ends without one; tbs are the
\* tables after the heading, in order
RECURSIVE scan_tables(_, _, _, _)
scan_tables(doc, heading, tbs, kind) ==
    IF tbs = <<>> THEN 0
    ELSE LET ph == prev_h(doc, Head(tbs))
             headers == cell_texts(doc, table_ths(doc, Head(tbs)))
         IN  IF ph # 0 /\ ph # heading THEN 0
             ELSE IF /\ headers # <<>>
                     /\ IF kind = "skills" THEN skills_headers_ok(headers)
                                           ELSE engraving_headers_ok(headers)
                  THEN Head(tbs)
             ELSE scan_tables(doc, heading, Tail(tbs), kind)

RECURSIVE skill_rows(_, _, _)
skill_rows(doc, trs, ix) ==
    IF trs = <<>> THEN <<>>
    ELSE LET tds == row_cells(doc, Head(trs))
             name == cell_text(doc, tds, ix.name)
             desc == cell_text(doc, tds, ix.desc)
             unlock == cell_text(doc, tds, ix.unlock)
             icon == cell_icon(doc, tds, ix.icon)
             rest == skill_rows(doc, Tail(trs), ix)
         IN  IF Len(tds) < (IF ix.name > ix.desc THEN ix.name ELSE ix.desc) THEN rest
             ELSE IF name # <<>> \/ desc # <<>> \/ unlock # <<>>
                  THEN <<("Unlock Level" :> unlock) @@ ("Skill Name" :> name) @@ ("Type" :> <<>>)
                           @@ ("Description" :> desc) @@ ("Icon" :> icon)>> \o rest
             ELSE rest

extract_skills_from_table(doc) ==
    LET heading == extract_section_node(doc, <<s_Skills>>)
        tb == IF heading = 0 THEN 0
              ELSE scan_tables(doc, heading, tables_after(doc, heading), "skills")
        header_cells == cell_texts(doc, row_cells(doc, table_trs(doc, tb)[1]))
        ix == [name |-> idx_of(header_cells, s_name), desc |-> idx_of(header_cells, s_description),
               unlock |-> idx_of(header_cells, s_unlock), icon |-> idx_of(header_cells, s_icon)]
    IN  IF tb = 0 THEN <<>>
        ELSE IF ix.name = 0 \/ ix.desc = 0 THEN <<>>
        ELSE skill_rows(doc, Tail(table_trs(doc, tb)), ix)

RECURSIVE skill_boxes(_, _)
skill_boxes(doc, boxes) ==
    IF boxes = <<>> THEN <<>>
    ELSE LET box == Head(boxes)
             header == find_class(doc, box, "skillbox-header")
             name == tclean(get_text(doc, header, s_sp, TRUE))
             small == find_tag(doc, header, {"small"})
             typ == IF small = 0 THEN <<>> ELSE tclean(get_text(doc, small, s_sp, TRUE))
             img_div == find_class(doc, box, "skillbox-image")
             img == IF img_div = 0 THEN 0 ELSE find_tag(doc, img_div, {"img"})
             icon == IF img = 0 THEN <<>> ELSE img_source(doc[img])
             parts == clean_texts(doc,
                         Ordered({d \in Descendants(doc, box) :
                                     HasClass(doc[d], "skillbox-description")
                                     \/ doc[d].tag \in {"p", "li"}}), s_sp, TRUE)
             desc == Join(dedup_lines(parts, {}), s_nl)
             rest == skill_boxes(doc, Tail(boxes))
         IN  IF header = 0 THEN rest
             ELSE IF name # <<>> \/ desc # <<>>
                  THEN <<("Unlock Level" :> <<>>) @@ ("Skill Name" :> name) @@ ("Type" :> typ)
                           @@ ("Description" :> desc) @@ ("Icon" :> icon)>> \o rest
             ELSE rest

extract_skills_boxes(doc) ==
    skill_boxes(doc, Ordered({b \in 1..Len(doc) : doc[b].tag = "div" /\ HasClass(doc[b], "skillbox")}))

extract_skills_both(doc) == extract_skills_from_table(doc) \o extract_skills_boxes(doc)

extract_skills(doc) ==
    LET skills == extract_skills_from_table(doc)
    IN  IF skills # <<>> THEN skills ELSE extract_skills_boxes(doc)

-----------------------------------------------------------------------------
(* scraper_service.extract_engraving_rows *)

Upper(c) ==
    IF \E i \in DOMAIN LowerChars : LowerChars[i] = c
    THEN UpperChars[CHOOSE i \in DOMAIN LowerChars : LowerChars[i] = c]
    ELSE c

UpperStr(s) == [i \in 1..Len(s) |-> Upper(s[i])]

\* str.strip(chars)
StripChars(s, chars) ==
    LET keep == {i \in 1..Len(s) : s[i] \notin chars}
    IN  IF keep = {} THEN <<>> ELSE SubSeq(s, Min(keep), Max(keep))

\* \b at index p: between a word character and a non-word character
WordBoundary(text, p) ==
    (p > 1 /\ IsWordChar(text[p - 1])) # (p <= Len(text) /\ IsWordChar(text[p]))

\* the length of the match of
\*   \b(E\s*30|E\s*60|E\s*80|\[30\]|\[60\]|\[80\])   (re.I)
\* at index p, 0 when it does not match there
eng_match_len(text, p) ==
    LET nows == {x \in (p + 1)..Len(text) : ~IsSpace(text[x])}
        q == IF nows = {} THEN Len(text) + 1 ELSE Min(nows)
    IN  IF ~WordBoundary(text, p) THEN 0
        ELSE IF /\ Lower(text[p]) = "e"
                /\ q + 1 <= Len(text)
                /\ SubSeq(text, q, q + 1) \in {<<"3","0">>, <<"6","0">>, <<"8","0">>}
             THEN q + 2 - p
        ELSE IF /\ p + 3 <= Len(text)
                /\ SubSeq(text, p, p + 3) \in {<<"[","3","0","]">>, <<"[","6","0","]">>,
                                                <<"[","8","0","]">>}
             THEN 4
        ELSE 0

\* re.split(pattern, text): text, group, text, group, ..., text
RECURSIVE eng_split(_)
eng_split(text) ==
    LET hits == {p \in 1..Len(text) : eng_match_len(text, p) > 0}
    IN  IF hits = {} THEN <<text>>
        ELSE LET p == Min(hits)
                 n == eng_match_len(text, p)
             IN  <<SubSeq(text, 1, p - 1), SubSeq(text, p, p + n - 1)>>
                    \o eng_split(SubSeq(text, p + n, Len(text)))

RECURSIVE engraving_fallback(_, _, _)
engraving_fallback(parts, i, hero_name) ==
    IF i > Len(parts) THEN <<>>
    ELSE <<("Hero" :> hero_name) @@ ("Skill Name" :> <<>>)
             @@ ("Unlock Level" :> Replace(UpperStr(StripChars(parts[i], {"[", "]", " "})), s_sp, <<>>))
             @@ ("Description" :> IF i + 1 <= Len(parts) THEN tclean(parts[i + 1]) ELSE <<>>)
             @@ ("Icon" :> <<>>)>>
         \o engraving_fallback(parts, i + 2, hero_name)

RECURSIVE engraving_table_rows(_, _, _, _)
engraving_table_rows(doc, trs, ix, hero_name) ==
    IF trs = <<>> THEN <<>>
    ELSE LET tds == row_cells(doc, Head(trs))
             name == cell_text(doc, tds, ix.name)
             desc == cell_text(doc, tds, ix.desc)
             unlock == cell_text(doc, tds, ix.unlock)
             icon == cell_icon(doc, tds, ix.icon)
             rest == engraving_table_rows(doc, Tail(trs), ix, hero_name)
         IN  IF tds = <<>> THEN rest
             ELSE IF name # <<>> \/ desc # <<>> \/ unlock # <<>>
                  THEN <<("Hero" :> hero_name) @@ ("Skill Name" :> name) @@ ("Unlock Level" :> unlock)
                           @@ ("Description" :> desc) @@ ("Icon" :> icon)>> \o rest
             ELSE rest

\* idx_of("unlock") or idx_of("level"): Python's `or` also passes over the
\* index 0, which is position 1 here
engraving_unlock_idx(header_cells) ==
    IF idx_of(header_cells, s_unlock) \in {0, 1}
    THEN idx_of(header_cells, s_level)
    ELSE idx_of(header_cells, s_unlock)

extract_engraving_rows(doc, hero_name) ==
    LET root == extract_section_node(doc, <<s_EngravingAbilities, s_Engraving>>)
        tb == scan_tables(doc, root, tables_after(doc, root), "engraving")
        header_cells == cell_texts(doc, row_cells(doc, table_trs(doc, tb)[1]))
        ix == [name |-> idx_of(header_cells, s_name), desc |-> idx_of(header_cells, s_description),
               unlock |-> engraving_unlock_idx(header_cells), icon |-> idx_of(header_cells, s_icon)]
        text == extract_section_text(doc, <<s_EngravingAbilities, s_Engraving>>)
    IN  IF root = 0 THEN <<>>
        ELSE IF tb # 0 THEN engraving_table_rows(doc, Tail(table_trs(doc, tb)), ix, hero_name)
        ELSE engraving_fallback(eng_split(text), 2, hero_name)

-----------------------------------------------------------------------------
(* scraper_service.extract_furniture_rows *)

\* class tokens that contain "tright"
TrightClasses == {"tright", "floatright-tright"}

\* prev.get("class") and any("tright" in c ...) or prev.name == "figure"
is_figure_box(n) == (\E c \in n.cls : c \in TrightClasses) \/ n.tag = "figure"

furniture_icon(doc, nh) ==
    LET prev == LastOf({j \in 1..(nh - 1) : doc[j].tag \in {"figure", "div"}})
        img1 == IF prev # 0 /\ is_figure_box(doc[prev]) THEN find_tag(doc, prev, {"img"}) ELSE 0
        img2 == IF img1 # 0 THEN img1 ELSE find_tag(doc, nh, {"img"})
        nxt == find_next(doc, nh, {"figure", "div"})
        img3 == IF img2 # 0 THEN img2
                ELSE IF nxt # 0 /\ is_figure_box(doc[nxt]) THEN find_tag(doc, nxt, {"img"})
                ELSE 0
    IN  IF img3 = 0 THEN <<>> ELSE img_source(doc[img3])

\* the loop over root.find_all_next(["h3", "h4"]): its h2 test never holds
\* and the root always precedes h, so the first h3/h4 after the root is taken
furniture_name_header(doc, root) == find_next(doc, root, {"h3", "h4"})

extract_furniture_rows(doc, hero_name) ==
    LET root == extract_section_node(doc, <<s_FurnitureSetBonuses, s_Furniture>>)
        nh == furniture_name_header(doc, root)
        name == IF nh = 0 THEN <<>> ELSE tclean(get_text(doc, nh, s_sp, TRUE))
        icon == IF nh = 0 THEN <<>> ELSE furniture_icon(doc, nh)
        ul == find_next(doc, IF nh = 0 THEN root ELSE nh, {"ul"})
        desc == IF ul = 0 THEN <<>>
                ELSE Join(clean_texts(doc, Ordered({j \in Descendants(doc, ul) : doc[j].tag = "li"}),
                                      s_sp, TRUE), s_nl)
    IN  IF root = 0 THEN <<>>
        ELSE IF name # <<>> \/ desc # <<>>
             THEN <<("Hero" :> hero_name) @@ ("Name" :> IF name # <<>> THEN name ELSE s_Furniture)
                      @@ ("Description" :> desc) @@ ("Icon" :> icon)>>
        ELSE <<>>

-----------------------------------------------------------------------------
(* scraper_service.find_sig_heading, extract_signature_item_desc,
   extract_signature_rows *)

\* re.compile(r"^signature[\s_]*item$", re.I) on an id
sig_id_match(id) ==
    LET l == LowerStr(id)
    IN  /\ Len(l) >= Len(s_signature) + Len(s_item)
        /\ SubSeq(l, 1, Len(s_signature)) = s_signature
        /\ SubSeq(l, Len(l) - Len(s_item) + 1, Len(l)) = s_item
        /\ \A x \in (Len(s_signature) + 1)..(Len(l) - Len(s_item)) : IsSpace(l[x]) \/ l[x] = "_"

\* re.search(r"\bsignature\s+item\b", text, re.I)
sig_text_search(text) ==
    \E p \in 1..Len(text) :
        LET e == p + Len(s_signature)
            nows == {x \in e..Len(text) : ~IsSpace(text[x])}
            q == IF nows = {} THEN Len(text) + 1 ELSE Min(nows)
        IN  /\ e - 1 <= Len(text)
            /\ LowerStr(SubSeq(text, p, e - 1)) = s_signature
            /\ WordBoundary(text, p)
            /\ q > e
            /\ q + Len(s_item) - 1 <= Len(text)
            /\ LowerStr(SubSeq(text, q, q + Len(s_item) - 1)) = s_item
            /\ WordBoundary(text, q + Len(s_item))

find_sig_heading(doc) ==
    LET span == FirstOf({i \in 1..Len(doc) :
                            doc[i].tag = "span" /\ "id" \in doc[i].has /\ sig_id_match(doc[i].id)})
        h == IF span = 0 THEN 0 ELSE find_parent(doc, span, {"h2", "h3"})
    IN  IF h # 0 THEN h
        ELSE FirstOf({i \in 1..Len(doc) :
                        doc[i].tag \in {"h2", "h3"} /\ sig_text_search(get_text(doc, i, s_sp, TRUE))})

\* re.match(r"(?i)^(item|skill)\s*:", title)
sig_subtitle_match(title) ==
    \E w \in {s_item, s_skill} :
        /\ Len(title) > Len(w)
        /\ LowerStr(SubSeq(title, 1, Len(w))) = w
        /\ LET nows == {x \in (Len(w) + 1)..Len(title) : ~IsSpace(title[x])}
           IN  nows # {} /\ title[Min(nows)] = ":"

RECURSIVE sig_loop(_, _, _)
sig_loop(doc, j, base) ==
    IF j > Len(doc) THEN <<>>
    ELSE LET n == doc[j]
             rest == sig_loop(doc, j + 1, base)
             title == tclean(get_text(doc, j, s_sp, TRUE))
         IN  IF ~IsTagNode(n) THEN rest
             ELSE IF n.tag \in HNames /\ heading_level(n.tag) <= base THEN <<>>
             ELSE IF n.tag \in {"h3", "h4"}
                  THEN (IF sig_subtitle_match(title) THEN <<title>> ELSE <<>>) \o rest
             ELSE IF n.tag \in {"p", "blockquote"}
                  THEN clean_texts(doc, <<j>>, s_sp, TRUE) \o rest
             ELSE IF n.tag = "ul"
                  THEN clean_texts(doc, Ordered({x \in Descendants(doc, j) : doc[x].tag = "li"}),
                                   s_sp, TRUE) \o rest
             ELSE rest

extract_signature_item_desc(doc) ==
    LET root == find_sig_heading(doc)
    IN  IF root = 0 THEN <<>>
        ELSE Strip(Join(dedup_lines(sig_loop(doc, root + 1, heading_level(doc[root].tag)), {}), s_nl))

extract_signature_rows(doc, hero_name) ==
    LET desc == extract_signature_item_desc(doc)
    IN  IF desc # <<>> THEN <<("Hero" :> hero_name) @@ ("Description" :> desc)>> ELSE <<>>

-----------------------------------------------------------------------------
(* scraper_service.scrape_page *)

HeroFields ==
    {"Icon", "Name", "Faction", "Type", "Class", "Rarity", "Role", "Primary Role",
     "Secondary Role", "Overall_EN", "Overall_VN", "Personality_EN", "Personality_VN",
     "Background_EN", "Background_VN", "Quotes_EN", "Quotes_VN", "Trivia_EN", "Trivia_VN", "URL"}

\* title_elem.get_text(strip=True) if title_elem else "Unknown"
page_title(doc) ==
    LET title_elem == FirstOf({i \in 1..Len(doc) :
                                  "id" \in doc[i].has /\ doc[i].id = s_firstHeading})
    IN  IF title_elem = 0 THEN s_Unknown ELSE get_text(doc, title_elem, <<>>, TRUE)

\* the first image of the infobox, when it has a src attribute
page_icon(doc) ==
    LET infobox == FirstOf({i \in 1..Len(doc) : HasClass(doc[i], "portable-infobox")})
        img == IF infobox = 0 THEN 0 ELSE find_tag(doc, infobox, {"img"})
    IN  IF img # 0 /\ "src" \in doc[img].has THEN doc[img].src ELSE <<>>

InfoboxLabel ==
    ("Faction" :> s_k_Faction) @@ ("Type" :> <<"T","y","p","e">>)
    @@ ("Class" :> <<"C","l","a","s","s">>) @@ ("Rarity" :> <<"R","a","r","i","t","y">>)
    @@ ("Role" :> s_k_Role)

\* a record holding only the infobox fields the page has
hero_row_sparse(url, title, icon, inf_map, roles, intro, doc1) ==
    [f \in {"Icon", "Name", "URL"}
            \cup {g \in DOMAIN InfoboxLabel : inf_get(inf_map, InfoboxLabel[g]) # <<>>} |->
        IF f = "Icon" THEN icon
        ELSE IF f = "Name" THEN title
        ELSE IF f = "URL" THEN url
        ELSE inf_get(inf_map, InfoboxLabel[f])]

\* the dict literal; doc1 is the document as extract_intro_text left it
hero_row(url, title, icon, inf_map, roles, intro, doc1) ==
    LET personality == extract_section_text(doc1, <<s_Personality>>)
    IN  ("Icon" :> icon) @@ ("Name" :> title)
        @@ ("Faction" :> inf_get(inf_map, s_k_Faction))
        @@ ("Type" :> inf_get(inf_map, <<"T","y","p","e">>))
        @@ ("Class" :> inf_get(inf_map, <<"C","l","a","s","s">>))
        @@ ("Rarity" :> inf_get(inf_map, <<"R","a","r","i","t","y">>))
        @@ ("Role" :> inf_get(inf_map, s_k_Role))
        @@ ("Primary Role" :> roles.primary) @@ ("Secondary Role" :> roles.secondary)
        @@ ("Overall_EN" :> Strip(intro \o s_nlnl \o personality)) @@ ("Overall_VN" :> <<>>)
        @@ ("Personality_EN" :> personality) @@ ("Personality_VN" :> <<>>)
        @@ ("Background_EN" :> extract_section_text(doc1, <<s_Background, s_Story>>))
        @@ ("Background_VN" :> <<>>)
        @@ ("Quotes_EN" :> extract_quotes(doc1)) @@ ("Quotes_VN" :> <<>>)
        @@ ("Trivia_EN" :> extract_section_text(doc1, <<s_Trivia>>)) @@ ("Trivia_VN" :> <<>>)
        @@ ("URL" :> url)

\* desc = r.pop("Description", ""); r["Description_EN"] = desc; r["Description_VN"] = ""
rename_description(row) ==
    [k \in (DOMAIN row \ {"Description"}) \cup {"Description_EN", "Description_VN"} |->
        IF k = "Description_EN" THEN (IF "Description" \in DOMAIN row THEN row["Description"] ELSE <<>>)
        ELSE IF k = "Description_VN" THEN <<>>
        ELSE row[k]]

\* s["Hero"] = title; s.setdefault("Type", "")
stamp_skill(row, title) ==
    [k \in DOMAIN row \cup {"Hero", "Type"} |->
        IF k = "Hero" THEN title
        ELSE IF k \in DOMAIN row THEN row[k] ELSE <<>>]

MapRows(rows, Op(_)) == [i \in 1..Len(rows) |-> Op(rows[i])]

\* the stages of the try block, in order; any of them may raise
ScrapeStages ==
    <<"get_soup", "title", "parse_infobox_map", "extract_roles_from_infobox", "icon",
      "extract_intro_text", "hero_row", "extract_skills", "extract_engraving_rows",
      "extract_signature_rows", "extract_furniture_rows">>

Sentinel == [raised |-> FALSE, hero |-> <<>>, skills |-> <<>>, engraving |-> <<>>,
             signature |-> <<>>, furniture |-> <<>>]

\* the try block: fault names the stage that raises, "none" when none does
scrape_try(url, doc, fault) ==
    LET title == page_title(doc)
        inf_map == parse_infobox_map(doc)
        roles == extract_roles_from_infobox(inf_map)
        icon == page_icon(doc)
        intro == extract_intro_text(doc)
        doc1 == intro.soup
    IN  IF fault # "none"
        THEN [raised |-> TRUE, hero |-> <<>>, skills |-> <<>>, engraving |-> <<>>,
              signature |-> <<>>, furniture |-> <<>>]
        ELSE [raised |-> FALSE,
              hero |-> <<hero_row(url, title, icon, inf_map, roles, intro.text, doc1)>>,
              skills |-> MapRows(extract_skills(doc1),
                                 LAMBDA r : rename_description(stamp_skill(r, title))),
              engraving |-> MapRows(extract_engraving_rows(doc1, title), rename_description),
              signature |-> MapRows(extract_signature_rows(doc1, title), rename_description),
              furniture |-> MapRows(extract_furniture_rows(doc1, title), rename_description)]

\* without the except clause
scrape_page_uncaught(url, doc, fault) == scrape_try(url, doc, fault)

\* except Exception: return None, [], [], [], []
scrape_page(url, doc, fault) ==
    LET r == scrape_try(url, doc, fault)
    IN  IF r.raised THEN Sentinel ELSE r

s_Brutus == <<"B","r","u","t","u","s">>
s_BrutusPadded == <<" ","B","r","u","t","u","s","\n">>
s_TwoSpaces == <<"A","i","n"," "," ","z">>
s_vLight == <<"\n"," ","L","i","g","h","t"," "," ","b","e","a","r","e","r"," ">>
s_vRoles == <<"T","a","n","k",","," ","D","P","S">>
s_IntroText == <<"X"," ","i","s"," "," ","b","r","a","v","e",".","\n">>
s_Kind == <<"K","i","n","d",".">>
s_Old == <<"O","l","d",".">>
s_Sad == <<"S","a","d",".">>
s_First == <<"F","i","r","s","t",".">>
s_Second == <<"S","e","c","o","n","d",".">>
s_Hi == <<"H","i","!">>
s_Icon == <<"I","c","o","n">>
s_Name == <<"N","a","m","e">>
s_Unlock == <<"U","n","l","o","c","k">>
s_Description == <<"D","e","s","c","r","i","p","t","i","o","n">>
s_Slam == <<"S","l","a","m">>
s_One == <<"1">>
s_HitsHard == <<"H","i","t","s"," "," ","h","a","r","d",".">>
s_Roar == <<"R","o","a","r">>
s_Loud == <<"L","o","u","d",".">>
s_EngText == <<"E","3","0"," ","M","o","r","e"," ","A","T","K","."," ","E","6","0"," ","M","o","r","e"," ","D","E","F",".">>
s_SignatureItem == <<"S","i","g","n","a","t","u","r","e"," ","I","t","e","m">>
s_ItemAxe == <<"I","t","e","m",":"," ","A","x","e">>
s_Sharp == <<"S","h","a","r","p",".">>
s_Den == <<"D","e","n">>
s_Bonus == <<"3","/","9",":"," ","x">>
s_imgA == <<"/","a",".","p","n","g">>
s_imgB == <<"/","b",".","p","n","g">>
s_url == <<"h","t","t","p","s",":","/","/","w",".","i","o","/","w","i","k","i","/","B","r","u","t","u","s">>

-----------------------------------------------------------------------------
(* Hero pages: an optional #firstHeading, and inside the content div an
   optional infobox, an optional lead paragraph and a choice of sections *)

MaxSections == 2

WithId(tag, id) == [El(tag) EXCEPT !.has = {"id"}, !.id = id]
WithClass(tag, c) == [El(tag) EXCEPT !.cls = {c}]
Img(src) == <<[El("img") EXCEPT !.has = {"src"}, !.src = src]>>

TitleVariants == {"none", "plain", "padded", "spaced", "empty"}

TitleNodes(v) ==
    CASE v = "none" -> <<>>
      [] v = "plain" -> Wrap(WithId("h1", s_firstHeading), Txt(s_Brutus))
      [] v = "padded" -> Wrap(WithId("h1", s_firstHeading), Txt(s_BrutusPadded))
      [] v = "spaced" -> Wrap(WithId("h1", s_firstHeading), Txt(s_TwoSpaces))
      [] v = "empty" -> Wrap(WithId("h1", s_firstHeading), Txt(s_sp))

PiData(label, value) ==
    Wrap(WithClass("div", "pi-data"),
         Wrap(WithClass("h3", "pi-data-label"), Txt(label))
         \o Wrap(WithClass("div", "pi-data-value"), Txt(value)))

InfoboxVariants == {"none", "full", "noimg", "class"}

InfoboxNodes(v) ==
    CASE v = "none" -> <<>>
      [] v = "full" -> Wrap(WithClass("aside", "portable-infobox"),
                            Wrap(El("figure"), Img(s_imgA))
                            \o PiData(s_k_Faction, s_vLight) \o PiData(s_k_Role, s_vRoles))
      [] v = "noimg" -> Wrap(WithClass("aside", "portable-infobox"),
                             PiData(s_k_Faction, s_Light))
      [] v = "class" -> Wrap(WithClass("aside", "portable-infobox"),
                             PiData(s_k_Classification, s_Tank))

IntroNodes(present) == IF present THEN Wrap(El("p"), Txt(s_IntroText)) ELSE <<>>

PageSections ==
    <<"Personality", "Story", "Trivia", "Quotes", "Skills", "Skillbox", "Engraving",
      "Signature", "Furniture">>

SectionOf(name) ==
    CASE name = "Personality" -> Heading("h2", s_Personality) \o Wrap(El("p"), Txt(s_Kind))
      [] name = "Story" ->
            Heading("h2", s_Story) \o Wrap(El("p"), Txt(s_Old))
            \o Wrap(El("blockquote"), Txt(s_Sad))
      [] name = "Trivia" ->
            Heading("h2", s_Trivia)
            \o Wrap(El("ul"), Wrap(El("li"), Txt(s_First)) \o Wrap(El("li"), Txt(s_Second)))
      [] name = "Quotes" ->
            HeadlineHeading("h2", s_Voice_Lines, s_VoiceLines)
            \o Wrap(El("ul"), Wrap(El("li"), Txt(s_Hi)) \o Wrap(El("li"), Txt(s_Hi)))
      [] name = "Skills" ->
            Heading("h2", s_Skills)
            \o Wrap(El("table"),
                    Wrap(El("tr"), Heading("th", s_Icon) \o Heading("th", s_Name)
                                   \o Heading("th", s_Unlock) \o Heading("th", s_Description))
                    \o Wrap(El("tr"), Wrap(El("td"), Img(s_imgB)) \o Heading("td", s_Slam)
                                      \o Heading("td", s_One) \o Heading("td", s_HitsHard)))
      [] name = "Skillbox" ->
            Wrap(WithClass("div", "skillbox"),
                 Wrap(WithClass("div", "skillbox-header"), Txt(s_Roar))
                 \o Wrap(WithClass("div", "skillbox-description"), Txt(s_Loud)))
      [] name = "Engraving" -> Heading("h2", s_Engraving) \o Wrap(El("p"), Txt(s_EngText))
      [] name = "Signature" ->
            Heading("h2", s_SignatureItem) \o Heading("h3", s_ItemAxe)
            \o Wrap(El("p"), Txt(s_Sharp))
      [] name = "Furniture" ->
            Heading("h2", s_FurnitureSetBonuses) \o Heading("h3", s_Den)
            \o Wrap(El("ul"), Wrap(El("li"), Txt(s_Bonus)))

RECURSIVE SectionsNodes(_, _)
SectionsNodes(names, chosen) ==
    IF names = <<>> THEN <<>>
    ELSE (IF Head(names) \in chosen THEN SectionOf(Head(names)) ELSE <<>>)
         \o SectionsNodes(Tail(names), chosen)

HeroPage(t, ib, intro, chosen) ==
    TitleNodes(t)
    \o Wrap(WithClass("div", "mw-parser-output"),
            InfoboxNodes(ib) \o IntroNodes(intro) \o SectionsNodes(PageSections, chosen))

Range(f) == {f[i] : i \in DOMAIN f}

\* a page with everything, for the runs in which a stage raises
FullPage == HeroPage("plain", "full", TRUE, {"Personality", "Skills"})

InitScrape ==
    \/ \E t \in TitleVariants : \E ib \in InfoboxVariants : \E intro \in BOOLEAN :
          \E chosen \in SUBSET Range(PageSections) :
             /\ Cardinality(chosen) <= MaxSections
             /\ InitPure("scrape_page", HeroPage(t, ib, intro, chosen),
                         [url |-> s_url, fault |-> "none"])
    \/ \E f \in Range(ScrapeStages) :
          InitPure("scrape_page", FullPage, [url |-> s_url, fault |-> f])

Call_scrape_page ==
    /\ fn = "scrape_page"
    /\ ~called
    /\ ret' = scrape_page(args.url, soup, args.fault)
    /\ called' = TRUE
    /\ UNCHANGED <<fn, soup, args, sh>>
    /\ UNCHANGED wsVars

NextScrape == Call_scrape_page

SpecScrape == InitScrape /\ [][NextScrape]_vars

ScrapeReturned == fn = "scrape_page" /\ called

-----------------------------------------------------------------------------
(* Properties of scrape_page *)

\* C1: scrape_page returns normally for every URL; when fetching, parsing
\* or any extractor raises, the result is exactly the sentinel (no record
\* and four empty lists) and no exception reaches the caller.
C1_NeverRaises ==
    ScrapeReturned =>
        /\ ~ret.raised
        /\ args.fault # "none" => ret = Sentinel

C1_Witness ==
    /\ ScrapeReturned
    /\ args.fault = "extract_skills"
    /\ ret = Sentinel

HasFirstHeading == \E i \in 1..Len(soup) : "id" \in soup[i].has /\ soup[i].id = s_firstHeading

\* h2/h3/h4 headings whose text holds one of the words, case-insensitively
HeadingsWith(words) ==
    {i \in 1..Len(soup) :
        /\ soup[i].tag \in {"h2", "h3", "h4"}
        /\ \E w \in words : Contains(LowerStr(get_text(soup, i, s_sp, TRUE)), LowerStr(w))}

\* the infobox rows labelled with the field
InfoboxRowsFor(f) ==
    {i \in 1..Len(soup) :
        /\ HasClass(soup[i], "pi-data-label")
        /\ tclean(get_text(soup, i, <<>>, FALSE)) = InfoboxLabel[f]}

\* the infobox rows whose label names a role: primary/secondary role,
\* role(s) or classification
RoleBearingRows ==
    {i \in 1..Len(soup) :
        /\ HasClass(soup[i], "pi-data-label")
        /\ LET lk == LowerStr(tclean(get_text(soup, i, <<>>, FALSE)))
           IN  \/ Contains(lk, s_primary) \/ Contains(lk, s_secondary)
               \/ Contains(lk, s_role) \/ Contains(lk, s_classification)}

\* the fields of the record whose data the page lacks, the name aside
AbsentFields ==
    {f \in DOMAIN InfoboxLabel : InfoboxRowsFor(f) = {}}
    \cup (IF RoleBearingRows = {} THEN {"Primary Role", "Secondary Role"} ELSE {})
    \cup (IF \E i \in 1..Len(soup) : soup[i].tag = "img" THEN {} ELSE {"Icon"})
    \cup (IF HeadingsWith({s_Personality}) = {} THEN {"Personality_EN"} ELSE {})
    \cup (IF HeadingsWith({s_Background, s_Story}) = {} THEN {"Background_EN"} ELSE {})
    \cup (IF HeadingsWith({s_Trivia}) = {} THEN {"Trivia_EN"} ELSE {})
    \cup (IF HeadingsWith({s_VoiceLines, s_OtherQuotes}) = {} THEN {"Quotes_EN"} ELSE {})
    \cup (IF HeadingsWith({s_Personality}) = {} /\ \A i \in 1..Len(soup) : soup[i].tag # "p"
          THEN {"Overall_EN"} ELSE {})
    \cup {"Overall_VN", "Personality_VN", "Background_VN", "Quotes_VN", "Trivia_VN"}

\* C3 (as stated): every non-null hero record holds every field, and every
\* field whose data is absent from the document, the name included, holds
\* the empty string.
C3_AbsentIsEmpty ==
    ScrapeReturned /\ ret.hero # <<>> =>
        /\ DOMAIN ret.hero[1] = HeroFields
        /\ \A f \in AbsentFields : ret.hero[1][f] = <<>>
        /\ ~HasFirstHeading => ret.hero[1]["Name"] = <<>>

\* C3 (amended): every non-null hero record holds every field; a field
\* whose data is absent holds the empty string, except Name, which holds
\* "Unknown" when the page has no #firstHeading element.
C3_CompleteRecord ==
    ScrapeReturned /\ ret.hero # <<>> =>
        /\ DOMAIN ret.hero[1] = HeroFields
        /\ \A f \in AbsentFields : ret.hero[1][f] = <<>>
        /\ ~HasFirstHeading => ret.hero[1]["Name"] = s_Unknown

C3_Witness ==
    /\ ScrapeReturned
    /\ ret.hero # <<>>
    /\ ~HasFirstHeading
    /\ {"Faction", "Role", "Icon", "Trivia_EN", "Quotes_EN"} \subseteq AbsentFields
    /\ "Primary Role" \notin AbsentFields
    /\ ret.hero[1]["Primary Role"] = s_Tank

Normalized(s) == s = tclean(s)

\* a text of newline-joined lines, each of them normalized
LinesNormalized(s) == \A i \in 1..Len(SplitOn(s, "\n")) : Normalized(SplitOn(s, "\n")[i])

SingleLineKeys ==
    {"Name", "Faction", "Type", "Class", "Rarity", "Role", "Primary Role", "Secondary Role",
     "Hero", "Skill Name", "Unlock Level"}

MultiLineKeys ==
    {"Overall_EN", "Personality_EN", "Background_EN", "Quotes_EN", "Trivia_EN", "Description_EN"}

RowNormalized(row) ==
    /\ \A k \in DOMAIN row \cap SingleLineKeys : Normalized(row[k])
    /\ \A k \in DOMAIN row \cap MultiLineKeys : LinesNormalized(row[k])

ReturnedRows ==
    Range(ret.hero) \cup Range(ret.skills) \cup Range(ret.engraving)
    \cup Range(ret.signature) \cup Range(ret.furniture)

\* C4: every text field of a hero record or sub-record returned by
\* scrape_page is whitespace-normalized: no leading or trailing whitespace
\* and no run of whitespace longer than one space (the fields that join
\* several texts with newlines are read line by line).
C4_TextNormalized ==
    ScrapeReturned => \A row \in ReturnedRows : RowNormalized(row)

\* the same with the page title left out: Name of the hero record and the
\* Hero column of the sub-records
C4_NormalizedButTitle ==
    ScrapeReturned =>
        \A row \in ReturnedRows :
            RowNormalized([k \in DOMAIN row \ {"Name", "Hero"} |-> row[k]])

C4_NormalizedButTitle_Witness ==
    /\ ScrapeReturned
    /\ ret.skills # <<>>
    /\ \E i \in 1..Len(soup) : soup[i].text = s_HitsHard
    /\ \E i \in 1..Len(soup) : soup[i].text = s_vLight

-----------------------------------------------------------------------------
(* app.websocket_endpoint: the batch driver.  The URLs of a request are
   identified by their positions 1..total; what scrape_page makes of a page
   is the environment's choice when the executor call returns. *)

MaxUrls == 3

\* asyncio.Semaphore(5)
SemaphoreLimit == 5

NullResult == [hero |-> <<>>, skills |-> <<>>, engraving |-> <<>>, signature |-> <<>>,
               furniture |-> <<>>]

\* what scrape_page returns for a page it can read
PageResult(u) ==
    [hero |-> <<[Name |-> u, URL |-> u]>>,
     skills |-> <<[Hero |-> u, row |-> 1], [Hero |-> u, row |-> 2]>>,
     engraving |-> <<[Hero |-> u, row |-> 1]>>,
     signature |-> <<>>,
     furniture |-> <<[Hero |-> u, row |-> 1]>>]

Total == Len(request.urls)

InitWs ==
    /\ fn = "websocket_endpoint"
    /\ soup = <<>>
    /\ args = <<>>
    /\ ret = <<>>
    /\ called = FALSE
    /\ sh = <<>>
    /\ \E n \in 0..MaxUrls : \E et \in {"excel", "google_sheet"} : \E ok \in BOOLEAN :
          request = [urls |-> [i \in 1..n |-> i], export_type |-> et, sheet_ok |-> ok]
    /\ ws_pc = "accepted"
    /\ task_pc = <<>>
    /\ results = <<>>
    /\ permits = 0
    /\ finished_count = 0
    /\ sent = <<>>
    /\ agg = NullResult
    /\ client_gone = FALSE

\* await websocket.send_json(msg) in the handler: delivered, or raising
\* into the handler's except clause when the peer is gone
HandlerSend(msg, next_pc) ==
    IF client_gone
    THEN /\ ws_pc' = "except"
         /\ UNCHANGED sent
    ELSE /\ ws_pc' = next_pc
         /\ sent' = Append(sent, msg)

ErrorMsg(text) == [type |-> "error", message |-> text]

\* lines 61-67: a google_sheet request without sheet id or credentials
ValidationFails ==
    /\ ws_pc = "accepted"
    /\ request.export_type = "google_sheet" /\ ~request.sheet_ok
    /\ HandlerSend(ErrorMsg("validation"), "finally")
    /\ UNCHANGED <<request, task_pc, results, permits, finished_count, agg, client_gone>>
    /\ UNCHANGED pureVars

\* lines 69-113: the tasks are created and the handler awaits gather
Launch ==
    /\ ws_pc = "accepted"
    /\ ~(request.export_type = "google_sheet" /\ ~request.sheet_ok)
    /\ ws_pc' = "gather"
    /\ task_pc' = [i \in 1..Total |-> "pending"]
    /\ results' = [i \in 1..Total |-> [how |-> "none", value |-> NullResult, current |-> 0]]
    /\ permits' = SemaphoreLimit
    /\ finished_count' = 0
    /\ UNCHANGED <<request, sent, agg, client_gone>>
    /\ UNCHANGED pureVars

\* async with semaphore: ... await loop.run_in_executor(...)
Acquire(i) ==
    /\ task_pc[i] = "pending"
    /\ permits > 0
    /\ permits' = permits - 1
    /\ task_pc' = [task_pc EXCEPT ![i] = "scraping"]
    /\ UNCHANGED <<request, ws_pc, results, finished_count, sent, agg, client_gone>>
    /\ UNCHANGED pureVars

\* lines 85-108: the executor call returns a record, returns the sentinel,
\* or raises and the except clause substitutes the sentinel; the counter
\* is incremented and the progress message is built with its value, all
\* before the task reaches the await of send_json
ScrapeReturns(i, how) ==
    /\ task_pc[i] = "scraping"
    /\ results' = [results EXCEPT ![i] = [how |-> how,
                      value |-> IF how = "ok" THEN PageResult(request.urls[i]) ELSE NullResult,
                      current |-> finished_count + 1]]
    /\ finished_count' = finished_count + 1
    /\ task_pc' = [task_pc EXCEPT ![i] = "sending"]
    /\ UNCHANGED <<request, ws_pc, permits, sent, agg, client_gone>>
    /\ UNCHANGED pureVars

ProgressMsg(current, total, text) ==
    [type |-> "progress", current |-> current, total |-> total, message |-> text]

\* lines 103-109 with the counter read when the message goes out
SendProgress_late(i) ==
    /\ task_pc[i] = "sending"
    /\ ~client_gone
    /\ sent' = Append(sent, ProgressMsg(finished_count, Total,
                         IF results[i].value.hero # <<>> THEN "Completed" ELSE "Failed"))
    /\ permits' = permits + 1
    /\ task_pc' = [task_pc EXCEPT ![i] = "done"]
    /\ UNCHANGED <<request, ws_pc, results, finished_count, agg, client_gone>>
    /\ UNCHANGED pureVars

\* lines 103-109: the progress message is sent and the task returns
SendProgress(i) ==
    /\ task_pc[i] = "sending"
    /\ ~client_gone
    /\ sent' = Append(sent, ProgressMsg(results[i].current, Total,
                         IF results[i].value.hero # <<>> THEN "Completed" ELSE "Failed"))
    /\ permits' = permits + 1
    /\ task_pc' = [task_pc EXCEPT ![i] = "done"]
    /\ UNCHANGED <<request, ws_pc, results, finished_count, agg, client_gone>>
    /\ UNCHANGED pureVars

\* send_json raises in the task: the task ends with the exception
SendProgressRaises(i) ==
    /\ task_pc[i] = "sending"
    /\ client_gone
    /\ permits' = permits + 1
    /\ task_pc' = [task_pc EXCEPT ![i] = "failed"]
    /\ UNCHANGED <<request, ws_pc, results, finished_count, sent, agg, client_gone>>
    /\ UNCHANGED pureVars

\* lines 116-124 stopping at the first page without a record
RECURSIVE aggregate_until_null(_, _)
aggregate_until_null(res, acc) ==
    IF res = <<>> \/ Head(res).hero = <<>> THEN acc
    ELSE aggregate_until_null(Tail(res),
             [hero |-> acc.hero \o Head(res).hero,
              skills |-> acc.skills \o Head(res).skills,
              engraving |-> acc.engraving \o Head(res).engraving,
              signature |-> acc.signature \o Head(res).signature,
              furniture |-> acc.furniture \o Head(res).furniture])

\* lines 116-124: for res in results: if hero_data: append / extend
RECURSIVE aggregate(_, _)
aggregate(res, acc) ==
    IF res = <<>> THEN acc
    ELSE aggregate(Tail(res),
             IF Head(res).hero # <<>>
             THEN [hero |-> acc.hero \o Head(res).hero,
                   skills |-> acc.skills \o Head(res).skills,
                   engraving |-> acc.engraving \o Head(res).engraving,
                   signature |-> acc.signature \o Head(res).signature,
                   furniture |-> acc.furniture \o Head(res).furniture]
             ELSE acc)

\* gather returns the results in the order of the tasks; the loop aggregates
GatherReturns ==
    /\ ws_pc = "gather"
    /\ \A i \in 1..Total : task_pc[i] = "done"
    /\ agg' = aggregate([i \in 1..Total |-> results[i].value], NullResult)
    /\ ws_pc' = "aggregated"
    /\ UNCHANGED <<request, task_pc, results, permits, finished_count, sent, client_gone>>
    /\ UNCHANGED pureVars

\* gather re-raises the exception of a task into the handler
GatherRaises ==
    /\ ws_pc = "gather"
    /\ \E i \in 1..Total : task_pc[i] = "failed"
    /\ ws_pc' = "except"
    /\ UNCHANGED <<request, task_pc, results, permits, finished_count, sent, agg, client_gone>>
    /\ UNCHANGED pureVars

\* lines 126-128
NoData ==
    /\ ws_pc = "aggregated"
    /\ agg.hero = <<>>
    /\ HandlerSend(ErrorMsg("No data found or all scrapes failed."), "finally")
    /\ UNCHANGED <<request, task_pc, results, permits, finished_count, agg, client_gone>>
    /\ UNCHANGED pureVars

\* lines 131-137: the progress message that precedes the sheet export
SheetProgress ==
    /\ ws_pc = "aggregated"
    /\ agg.hero # <<>>
    /\ request.export_type = "google_sheet"
    /\ HandlerSend(ProgressMsg(Total, Total, "Writing to Google Sheet..."), "exporting")
    /\ UNCHANGED <<request, task_pc, results, permits, finished_count, agg, client_gone>>
    /\ UNCHANGED pureVars

CompleteMsg(mode) == [type |-> "complete", mode |-> mode, hero_count |-> Len(agg.hero)]

\* lines 138-145 and 153-167: the export succeeds and complete is sent
ExportCompletes ==
    /\ \/ ws_pc = "exporting"
       \/ ws_pc = "aggregated" /\ agg.hero # <<>> /\ request.export_type # "google_sheet"
    /\ HandlerSend(CompleteMsg(IF request.export_type = "google_sheet"
                               THEN "google_sheet" ELSE "excel"), "finally")
    /\ UNCHANGED <<request, task_pc, results, permits, finished_count, agg, client_gone>>
    /\ UNCHANGED pureVars

\* export_all_data raises: lines 146-150 report it; create_excel raises:
\* the outer except clause takes over
ExportRaises ==
    /\ \/ /\ ws_pc = "exporting"
          /\ HandlerSend(ErrorMsg("Google Sheet Error"), "finally")
       \/ /\ ws_pc = "aggregated" /\ agg.hero # <<>> /\ request.export_type # "google_sheet"
          /\ ws_pc' = "except"
          /\ UNCHANGED sent
    /\ UNCHANGED <<request, task_pc, results, permits, finished_count, agg, client_gone>>
    /\ UNCHANGED pureVars

\* lines 169-171: the error message is sent unless this send raises too
OuterExcept ==
    /\ ws_pc = "except"
    /\ ws_pc' = "finally"
    /\ sent' = IF client_gone THEN sent ELSE Append(sent, ErrorMsg("exception"))
    /\ UNCHANGED <<request, task_pc, results, permits, finished_count, agg, client_gone>>
    /\ UNCHANGED pureVars

\* lines 172-173
Close ==
    /\ ws_pc = "finally"
    /\ ws_pc' = "closed"
    /\ UNCHANGED <<request, task_pc, results, permits, finished_count, sent, agg, client_gone>>
    /\ UNCHANGED pureVars

\* the peer disconnects
ClientLeaves ==
    /\ ws_pc \notin {"idle", "closed"}
    /\ ~client_gone
    /\ client_gone' = TRUE
    /\ UNCHANGED <<request, ws_pc, task_pc, results, permits, finished_count, sent, agg>>
    /\ UNCHANGED pureVars

NextWs ==
    \/ ValidationFails
    \/ Launch
    \/ \E i \in 1..Len(task_pc) : Acquire(i)
    \/ \E i \in 1..Len(task_pc) : \E how \in {"ok", "null", "raise"} : ScrapeReturns(i, how)
    \/ \E i \in 1..Len(task_pc) : SendProgress(i)
    \/ \E i \in 1..Len(task_pc) : SendProgressRaises(i)
    \/ GatherReturns
    \/ GatherRaises
    \/ NoData
    \/ SheetProgress
    \/ ExportCompletes
    \/ ExportRaises
    \/ OuterExcept
    \/ Close
    \/ ClientLeaves

SpecWs == InitWs /\ [][NextWs]_vars

-----------------------------------------------------------------------------
(* Properties of the batch driver *)

\* the URLs whose page yielded a record
OkUrls == {i \in 1..Total : results[i].how = "ok"}

SubLists == {agg.skills, agg.engraving, agg.signature, agg.furniture}

\* C2: in a batch in which some pages yield the sentinel or raise, every
\* URL is still processed and the aggregated heroes are exactly the
\* non-null records in the order of the input URLs; a failed page
\* contributes no hero and no sub-list row and does not abort the batch.
C2_FailedPagesSkipped ==
    /\ ws_pc \in {"aggregated", "exporting"} =>
          /\ \A i \in 1..Total : task_pc[i] = "done" /\ results[i].how # "none"
          /\ Len(agg.hero) = Cardinality(OkUrls)
          /\ \A k \in 1..Len(agg.hero) :
                /\ agg.hero[k] = results[agg.hero[k].URL].value.hero[1]
                /\ agg.hero[k].URL \in OkUrls
                /\ \A j \in 1..(k - 1) : agg.hero[j].URL < agg.hero[k].URL
          /\ \A rows \in SubLists : \A k \in 1..Len(rows) : rows[k].Hero \in OkUrls
          /\ \A u \in OkUrls :
                /\ SelectSeq(agg.skills, LAMBDA r : r.Hero = u) = results[u].value.skills
                /\ SelectSeq(agg.engraving, LAMBDA r : r.Hero = u) = results[u].value.engraving
                /\ SelectSeq(agg.furniture, LAMBDA r : r.Hero = u) = results[u].value.furniture
    \* no page outcome ends a task with an exception
    /\ (\E i \in 1..Len(task_pc) : task_pc[i] = "failed") => client_gone
    \* while the peer is there the batch goes on until every task is done
    /\ ws_pc = "gather" /\ ~client_gone /\ (\E i \in 1..Total : task_pc[i] # "done") =>
          \E i \in 1..Total : \/ task_pc[i] = "pending" /\ permits > 0
                              \/ task_pc[i] \in {"scraping", "sending"}

C2_Witness ==
    /\ ws_pc = "aggregated"
    /\ Total = 3
    /\ results[1].how = "ok" /\ results[2].how = "raise" /\ results[3].how = "ok"
    /\ agg.hero = <<[Name |-> 1, URL |-> 1], [Name |-> 3, URL |-> 3]>>
    /\ sent[1].message = "Failed"

-----------------------------------------------------------------------------
(* extract_quotes on pages with a voice-lines group and an other-quotes
   group, each a heading followed by a list *)

s_Bye == <<"B","y","e",".">>
s_HiPadded == <<" ","H","i","!","\n">>

MaxQuotes == 2

QuoteTexts == {s_Hi, s_Bye, s_HiPadded, <<>>}

RECURSIVE ListItems(_)
ListItems(texts) ==
    IF texts = <<>> THEN <<>>
    ELSE Wrap(El("li"), Txt(Head(texts))) \o ListItems(Tail(texts))

\* a group: its heading (with the mw-headline span carrying the id, or a
\* plain heading holding the title) and its list
QuoteGroup(present, byId, id, title, texts) ==
    IF ~present THEN <<>>
    ELSE (IF byId THEN HeadlineHeading("h2", id, title) ELSE Heading("h3", title))
         \o Wrap(El("ul"), ListItems(texts))

QuotePage(a) ==
    Wrap(WithClass("div", "mw-parser-output"),
         QuoteGroup(a.hasVoice, a.byId, s_Voice_Lines, s_VoiceLines, a.voice)
         \o QuoteGroup(a.hasOther, a.byId, s_Other_Quotes, s_OtherQuotes, a.other))

InitQuotes ==
    \E hv, ho, byId \in BOOLEAN : \E n, m \in 0..MaxQuotes :
        \E voice \in [1..n -> QuoteTexts] : \E other \in [1..m -> QuoteTexts] :
            /\ ~hv => n = 0
            /\ ~ho => m = 0
            /\ LET a == [hasVoice |-> hv, hasOther |-> ho, byId |-> byId,
                         voice |-> voice, other |-> other]
               IN  InitPure("extract_quotes", QuotePage(a), a)

Call_extract_quotes ==
    /\ fn = "extract_quotes"
    /\ ~called
    /\ ret' = extract_quotes(soup)
    /\ called' = TRUE
    /\ UNCHANGED <<fn, soup, args, sh>>
    /\ UNCHANGED wsVars

NextQuotes == Call_extract_quotes

SpecQuotes == InitQuotes /\ [][NextQuotes]_vars

\* the normalized non-empty item texts, voice lines before other quotes
QuoteItems ==
    SelectSeq([i \in 1..(Len(args.voice) + Len(args.other)) |->
                  tclean((args.voice \o args.other)[i])],
              LAMBDA t : t # <<>>)

QuotesOut == IF ret = <<>> THEN <<>> ELSE SplitOn(ret, "\n")

FirstIndex(seq, x) == Min({i \in 1..Len(seq) : seq[i] = x})

\* C11: the output of extract_quotes is the voice-lines items followed by
\* the other-quotes items with duplicates removed: every distinct non-empty
\* item text appears exactly once, at the position of its first occurrence.
C11_QuotesDedupFirstSeen ==
    fn = "extract_quotes" /\ called =>
        /\ Range(QuotesOut) = Range(QuoteItems)
        /\ \A i, j \in 1..Len(QuotesOut) :
              i < j => /\ QuotesOut[i] # QuotesOut[j]
                       /\ FirstIndex(QuoteItems, QuotesOut[i]) < FirstIndex(QuoteItems, QuotesOut[j])

\* a text of the voice lines recurs among the other quotes, after another one
C11_Witness ==
    /\ fn = "extract_quotes" /\ called
    /\ args.voice = <<s_Hi, s_Bye>>
    /\ args.other = <<s_Bye, s_HiPadded>>
    /\ ret = s_Hi \o s_nl \o s_Bye

-----------------------------------------------------------------------------
(* extract_skills on pages with a skills table (or what stands in its
   place) and skill boxes *)

s_Active == <<"A","c","t","i","v","e">>
s_Level == <<"L","e","v","e","l">>
s_RoarActive == <<"R","o","a","r"," ","A","c","t","i","v","e">>

MaxBoxes == 2

\* what the page has by way of a skills table
SkillTableVariants ==
    {"none", "heading_only", "no_desc", "other_section", "no_rows", "blank_row", "one_row",
     "two_rows"}

HeaderRow(titles) == Wrap(El("tr"),
                          (IF Len(titles) = 4
                           THEN Heading("th", titles[1]) \o Heading("th", titles[2])
                                \o Heading("th", titles[3]) \o Heading("th", titles[4])
                           ELSE Heading("th", titles[1]) \o Heading("th", titles[2])
                                \o Heading("th", titles[3])))

SkillRow(name, unlock, desc) ==
    Wrap(El("tr"), Wrap(El("td"), Img(s_imgB)) \o Heading("td", name)
                   \o Heading("td", unlock) \o Heading("td", desc))

FullHeader == HeaderRow(<<s_Icon, s_Name, s_Unlock, s_Description>>)

SkillTableNodes(v) ==
    CASE v = "none" -> <<>>
      [] v = "heading_only" -> Heading("h2", s_Skills)
      [] v = "no_desc" ->
            Heading("h2", s_Skills)
            \o Wrap(El("table"), HeaderRow(<<s_Icon, s_Name, s_Unlock>>)
                                 \o Wrap(El("tr"), Wrap(El("td"), Img(s_imgB))
                                                   \o Heading("td", s_Slam) \o Heading("td", s_One)))
      [] v = "other_section" ->
            Heading("h2", s_Skills) \o Heading("h3", s_Other)
            \o Wrap(El("table"), FullHeader \o SkillRow(s_Slam, s_One, s_HitsHard))
      [] v = "no_rows" -> Heading("h2", s_Skills) \o Wrap(El("table"), FullHeader)
      [] v = "blank_row" ->
            Heading("h2", s_Skills)
            \o Wrap(El("table"), FullHeader
                                 \o Wrap(El("tr"), Wrap(El("td"), Img(s_imgB)) \o Heading("td", s_sp)
                                                   \o Heading("td", <<>>) \o Heading("td", s_sp)))
      [] v = "one_row" ->
            Heading("h2", s_Skills)
            \o Wrap(El("table"), FullHeader \o SkillRow(s_Slam, s_One, s_HitsHard))
      [] v = "two_rows" ->
            Heading("h2", s_Skills)
            \o Wrap(El("table"), FullHeader \o SkillRow(s_Slam, s_One, s_HitsHard)
                                 \o SkillRow(s_Roar, <<>>, s_Loud))

SkillEntry(unlock, name, typ, desc, icon) ==
    ("Unlock Level" :> unlock) @@ ("Skill Name" :> name) @@ ("Type" :> typ)
    @@ ("Description" :> desc) @@ ("Icon" :> icon)

\* the entries the table of the page stands for
TableEntries(v) ==
    CASE v = "one_row" -> <<SkillEntry(s_One, s_Slam, <<>>, tclean(s_HitsHard), s_imgB)>>
      [] v = "two_rows" -> <<SkillEntry(s_One, s_Slam, <<>>, tclean(s_HitsHard), s_imgB),
                             SkillEntry(<<>>, s_Roar, <<>>, s_Loud, s_imgB)>>
      [] OTHER -> <<>>

BoxKinds == {"plain", "typed", "as_table"}

BoxNodes(k) ==
    Wrap(WithClass("div", "skillbox"),
         Wrap(WithClass("div", "skillbox-header"),
              CASE k = "plain" -> Txt(s_Roar)
                [] k = "typed" -> Txt(s_Roar) \o Wrap(El("small"), Txt(s_Active))
                [] k = "as_table" -> Txt(s_Slam))
         \o Wrap(WithClass("div", "skillbox-description"), Txt(s_Loud)))

BoxEntry(k) ==
    CASE k = "plain" -> SkillEntry(<<>>, s_Roar, <<>>, s_Loud, <<>>)
      [] k = "typed" -> SkillEntry(<<>>, s_RoarActive, s_Active, s_Loud, <<>>)
      [] k = "as_table" -> SkillEntry(<<>>, s_Slam, <<>>, s_Loud, <<>>)

RECURSIVE BoxesNodes(_)
BoxesNodes(ks) == IF ks = <<>> THEN <<>> ELSE BoxNodes(Head(ks)) \o BoxesNodes(Tail(ks))

SkillsPage(a) ==
    Wrap(WithClass("div", "mw-parser-output"), SkillTableNodes(a.table) \o BoxesNodes(a.boxes))

InitSkills ==
    \E v \in SkillTableVariants : \E n \in 0..MaxBoxes : \E ks \in [1..n -> BoxKinds] :
        LET a == [table |-> v, boxes |-> ks]
        IN  InitPure("extract_skills", SkillsPage(a), a)

Call_extract_skills ==
    /\ fn = "extract_skills"
    /\ ~called
    /\ ret' = extract_skills(soup)
    /\ called' = TRUE
    /\ UNCHANGED <<fn, soup, args, sh>>
    /\ UNCHANGED wsVars

NextSkills == Call_extract_skills

SpecSkills == InitSkills /\ [][NextSkills]_vars

BoxEntries == [i \in 1..Len(args.boxes) |-> BoxEntry(args.boxes[i])]

\* C12: extract_skills uses the skill boxes if and only if the table
\* strategy yields no entry: with at least one table entry the result is
\* exactly the table entries, otherwise (no Skills heading, no qualifying
\* table, a table without a description column) exactly the box entries.
C12_BoxesOnlyWithoutTableEntries ==
    fn = "extract_skills" /\ called =>
        ret = IF TableEntries(args.table) # <<>> THEN TableEntries(args.table) ELSE BoxEntries

C12_Witness ==
    /\ fn = "extract_skills" /\ called
    /\ args.table = "one_row"
    /\ args.boxes = <<"typed", "as_table">>
    /\ Len(ret) = 1

C12_FallbackWitness ==
    /\ fn = "extract_skills" /\ called
    /\ args.table = "no_desc"
    /\ args.boxes = <<"typed", "as_table">>
    /\ ret = BoxEntries

-----------------------------------------------------------------------------
(* extract_intro_text on content divs whose children are paragraphs (some
   with a nested infobox fragment), infoboxes, headings and lists.  The
   document is shared with the caller: what decompose() removes is gone
   from soup. *)

s_Box == <<"B","o","x">>
s_Lead == <<"L","e","a","d",".">>

MaxIntroNodes == 3

IntroKinds == {"p", "p_aside", "p_infobox_span", "aside", "h2", "toc", "blank", "ul"}

IntroChild(k) ==
    CASE k = "p" -> Wrap(El("p"), Txt(s_Lead))
      [] k = "p_aside" -> Wrap(El("p"), Wrap(El("aside"), Txt(s_Box)) \o Txt(s_Lead))
      [] k = "p_infobox_span" ->
            Wrap(El("p"), Wrap(WithClass("span", "portable-infobox"), Txt(s_Box)) \o Txt(s_IntroText))
      [] k = "aside" -> Wrap(WithClass("aside", "portable-infobox"), Txt(s_Box))
      [] k = "h2" -> Heading("h2", s_Story)
      [] k = "toc" -> Wrap(WithId("div", s_toc), Txt(s_Box))
      [] k = "blank" -> Txt(s_nl)
      [] k = "ul" -> Wrap(El("ul"), Wrap(El("li"), Txt(s_First)))

RECURSIVE IntroChildren(_)
IntroChildren(ks) == IF ks = <<>> THEN <<>> ELSE IntroChild(Head(ks)) \o IntroChildren(Tail(ks))

IntroPage(ks) == Wrap(WithClass("div", "mw-parser-output"), IntroChildren(ks))

InitIntro ==
    \E n \in 0..MaxIntroNodes : \E ks \in [1..n -> IntroKinds] :
        InitPure("extract_intro_text", IntroPage(ks), [kinds |-> ks, doc |-> IntroPage(ks)])

\* the call returns the text; the document is the caller's object
Call_extract_intro_text ==
    /\ fn = "extract_intro_text"
    /\ ~called
    /\ ret' = extract_intro_text(soup).text
    /\ soup' = extract_intro_text(soup).soup
    /\ called' = TRUE
    /\ UNCHANGED <<fn, args, sh>>
    /\ UNCHANGED wsVars

NextIntro == Call_extract_intro_text

SpecIntro == InitIntro /\ [][NextIntro]_vars

\* C13: no extractor mutates the document it is given: after
\* extract_intro_text returns, the tree has the same nodes in the same
\* structure as before the call, also when a top-level paragraph holds a
\* nested infobox fragment.
C13_DocumentUnchanged ==
    fn = "extract_intro_text" /\ called => soup = args.doc

\* the text returned leaves the nested fragments out
C13_IntroSkipsNestedInfobox ==
    fn = "extract_intro_text" /\ called =>
        \A i \in 1..Len(SplitOn(ret, "\n")) : ~Contains(SplitOn(ret, "\n")[i], s_Box)

-----------------------------------------------------------------------------
(* google_sheets_service: Python values and the worksheets of gspread.

   A value is tagged: an int, a str (a character sequence), a dict key or
   header name (a str kept whole, as a TLA+ string), or None.  A worksheet
   is its grid of cells, rows of values as Sheets stores them: written with
   value_input_option="USER_ENTERED", a str of digits becomes a number and
   a str beginning with "=" a formula; read back, a cell gives its
   formatted value, which for a formula is what the formula displays, not
   its text. *)

s_http == <<"h","t","t","p">>
s_IMAGE_open == <<"=","I","M","A","G","E","(","\"">>
s_IMAGE_close == <<"\"",")">>

PyInt(n) == [k |-> "int", n |-> n, s |-> <<>>]
PyStr(s) == [k |-> "str", n |-> 0, s |-> s]
PyKey(name) == [k |-> "key", n |-> 0, s |-> name]
PyNone == [k |-> "none", n |-> 0, s |-> <<>>]
Formula(s) == [k |-> "formula", n |-> 0, s |-> s]

Blank == PyStr(<<>>)
IsBlank(c) == c.k = "str" /\ c.s = <<>>

\* Python truthiness of a value
Truthy(v) ==
    CASE v.k = "int" -> v.n # 0
      [] v.k = "str" -> v.s # <<>>
      [] v.k = "key" -> TRUE
      [] OTHER -> FALSE

\* str.isdigit()
IsDigits(s) == s # <<>> /\ \A i \in 1..Len(s) : s[i] \in DigitChars

DigitSeq == <<"0","1","2","3","4","5","6","7","8","9">>

RECURSIVE ParseInt(_)
ParseInt(s) ==
    IF s = <<>> THEN 0
    ELSE 10 * ParseInt(SubSeq(s, 1, Len(s) - 1))
         + (CHOOSE d \in 0..9 : DigitSeq[d + 1] = s[Len(s)])

RECURSIVE IntStr(_)
IntStr(n) == IF n < 10 THEN <<DigitSeq[n + 1]>> ELSE IntStr(n \div 10) \o <<DigitSeq[(n % 10) + 1]>>

\* what a cell holds once a value is entered with USER_ENTERED
Entered(v) ==
    CASE v.k = "none" -> Blank
      [] v.k = "str" /\ IsDigits(v.s) -> PyInt(ParseInt(v.s))
      [] v.k = "str" /\ v.s # <<>> /\ v.s[1] = "=" -> Formula(v.s)
      [] OTHER -> v

\* the formatted value of a cell, a str
Formatted(c) ==
    CASE c.k = "int" -> PyStr(IntStr(c.n))
      [] c.k = "formula" -> Blank
      [] OTHER -> c

\* gspread.utils.numericise on a formatted value
Numericised(v) == IF v.k = "str" /\ IsDigits(v.s) THEN PyInt(ParseInt(v.s)) ELSE v

\* a row without its trailing blank cells, a grid without its trailing
\* empty rows: Sheets keeps no trace of them
TrimRow(row) ==
    LET used == {i \in 1..Len(row) : ~IsBlank(row[i])}
    IN  IF used = {} THEN <<>> ELSE SubSeq(row, 1, Max(used))

TrimGrid(grid) ==
    LET rows == [i \in 1..Len(grid) |-> TrimRow(grid[i])]
        used == {i \in 1..Len(rows) : rows[i] # <<>>}
    IN  IF used = {} THEN <<>> ELSE SubSeq(rows, 1, Max(used))

EnterRow(values) == [i \in 1..Len(values) |-> Entered(values[i])]

PadRow(row, n) == IF Len(row) >= n THEN row ELSE row \o [i \in 1..(n - Len(row)) |-> Blank]

\* Worksheet.append_row / append_rows
ws_append_rows(grid, rows) == TrimGrid(grid \o [i \in 1..Len(rows) |-> EnterRow(rows[i])])

\* Worksheet.update("A<r>", [values]): the cells of row r from column A on
ws_update_row(grid, r, values) ==
    LET tall == IF Len(grid) >= r THEN grid ELSE grid \o [i \in 1..(r - Len(grid)) |-> <<>>]
        old == tall[r]
        new == EnterRow(values) \o SubSeq(old, Len(values) + 1, Len(old))
    IN  TrimGrid([tall EXCEPT ![r] = new])

\* Worksheet.clear() then update("A1", data)
ws_replace_all(data) == TrimGrid([i \in 1..Len(data) |-> EnterRow(data[i])])

\* Worksheet.get_all_values(): the formatted values, rows filled to one width
ws_get_all_values(grid) ==
    LET width == IF grid = <<>> THEN 0 ELSE Max({Len(grid[i]) : i \in 1..Len(grid)})
    IN  [i \in 1..Len(grid) |-> [j \in 1..width |-> Formatted(PadRow(grid[i], width)[j])]]

\* Worksheet.row_values(1)
ws_row_values(grid, r) ==
    IF r > Len(grid) THEN <<>> ELSE [j \in 1..Len(grid[r]) |-> Formatted(grid[r][j])]

\* Worksheet.get_all_records(): a dict per data row, keyed by the header row,
\* values numericised; a dict is a sequence of [k, v] pairs
ws_get_all_records(grid) ==
    LET vals == ws_get_all_values(grid)
    IN  IF vals = <<>> THEN <<>>
        ELSE [i \in 1..(Len(vals) - 1) |->
                 [j \in 1..Len(vals[1]) |-> [k |-> vals[1][j], v |-> Numericised(vals[i + 1][j])]]]

-----------------------------------------------------------------------------
(* google_sheets_service.get_dynamic_headers, update_heroes_sheet,
   update_sub_sheet, export_all_data.  A record (dict) is a function from
   its keys to its texts; under "ID" it holds the tagged value the writer
   puts there. *)

\* the keys of the records, as sorted() orders them
SortedKeys ==
    <<"Background", "Background_EN", "Background_VN", "Class", "Description",
      "Description_EN", "Description_VN", "Faction", "Hero", "Hero ID", "ID", "Icon",
      "Name", "Overall", "Overall_EN", "Overall_VN", "Personality", "Personality_EN",
      "Personality_VN", "Primary Role", "Quotes", "Quotes_EN", "Quotes_VN", "Rarity",
      "Role", "Secondary Role", "Skill Name", "Trivia", "Trivia_EN", "Trivia_VN",
      "Type", "URL", "Unlock Level">>

get_dynamic_headers(data, priority_fields) ==
    LET all_keys == UNION {DOMAIN data[i] : i \in 1..Len(data)}
        first == SelectSeq(priority_fields,
                           LAMBDA f : f \in all_keys \/ f \in {"ID", "Name", "Hero", "Icon"})
        remaining == SelectSeq(SortedKeys,
                               LAMBDA f : f \in all_keys /\ f \notin Range(priority_fields)
                                          /\ f # "Hero ID")
    IN  IF data = <<>> THEN priority_fields ELSE first \o remaining

\* col[:-3] for the columns that end in "_EN"
EnBase ==
    ("Overall_EN" :> "Overall") @@ ("Personality_EN" :> "Personality")
    @@ ("Background_EN" :> "Background") @@ ("Quotes_EN" :> "Quotes")
    @@ ("Trivia_EN" :> "Trivia") @@ ("Description_EN" :> "Description")

\* dict.get(key)
PyGet(d, key) ==
    IF key \notin DOMAIN d THEN PyNone
    ELSE IF key = "ID" THEN d[key]
    ELSE PyStr(d[key])

\* lines 115-122 and 194-201: the value written in the column col
export_cell(d, col) ==
    LET v0 == PyGet(d, col)
        v1 == IF v0.k = "none" /\ col \in DOMAIN EnBase THEN PyGet(d, EnBase[col]) ELSE v0
        v2 == IF v1.k = "none" THEN Blank ELSE v1
    IN  IF col = "Icon" /\ Truthy(v2) /\ v2.k = "str" /\ StartsWith(v2.s, s_http)
        THEN PyStr(s_IMAGE_open \o v2.s \o s_IMAGE_close)
        ELSE v2

export_row(d, current_headers) ==
    [j \in 1..Len(current_headers) |-> export_cell(d, current_headers[j])]

KeysRow(headers) == [j \in 1..Len(headers) |-> PyKey(headers[j])]

\* the names in a header row read from the sheet
HeaderNames(row) == [j \in 1..Len(row) |-> row[j].s]

HeroesPriority ==
    <<"ID", "Icon", "Name", "Faction", "Type", "Class", "Rarity", "Role", "Primary Role",
      "Secondary Role", "Overall_EN", "Overall_VN", "Personality_EN", "Personality_VN",
      "Background_EN", "Background_VN", "Quotes_EN", "Quotes_VN", "Trivia_EN", "Trivia_VN",
      "URL">>

\* row.get(key) on a dict of get_all_records
RowGet(row, key) ==
    LET at == {j \in 1..Len(row) : row[j].k.k = "key" /\ row[j].k.s = key}
    IN  IF at = {} THEN PyNone ELSE row[Max(at)].v

DictHas(d, key) == \E i \in 1..Len(d) : d[i].k = key
DictGet(d, key) == d[CHOOSE i \in 1..Len(d) : d[i].k = key].v

\* the element of a singleton set: the set's bound variable holds a value
\* that the operators below use several times
Once(S) == CHOOSE x \in S : TRUE

\* lines 84-91: one existing row
scan_row(row, i, acc) ==
    LET n == RowGet(row, "Name")
        rid == RowGet(row, "ID")
    IN  IF ~Truthy(n) THEN acc
        ELSE [name_map |-> DictSet(acc.name_map, n, [row |-> i + 1, id |-> rid]),
              max_id |-> IF rid.k = "int" /\ rid.n > acc.max_id THEN rid.n
                         ELSE IF rid.k = "str" /\ IsDigits(rid.s)
                                 /\ ParseInt(rid.s) > acc.max_id THEN ParseInt(rid.s)
                         ELSE acc.max_id]

\* lines 80-91: name_map and max_id from the existing rows
RECURSIVE scan_existing(_, _, _)
scan_existing(existing, i, acc) ==
    IF i > Len(existing) THEN acc
    ELSE Once({scan_existing(existing, i + 1, a) : a \in {scan_row(existing[i], i, acc)}})

\* lines 97-130: one hero; st carries the grid, max_id, the rows to append,
\* the name -> id map and the heroes with their ID set
hero_step(h0, name_map, current_headers, st) ==
    LET name == PyGet(h0, "Name")
        known == DictHas(name_map, name)
        h_id == IF known THEN DictGet(name_map, name).id ELSE PyInt(st.max_id + 1)
        h == ("ID" :> h_id) @@ h0
        row_vals == export_row(h, current_headers)
    IN  [grid |-> IF known THEN ws_update_row(st.grid, DictGet(name_map, name).row, row_vals)
                  ELSE st.grid,
         max_id |-> IF known THEN st.max_id ELSE st.max_id + 1,
         new_rows |-> IF known THEN st.new_rows ELSE Append(st.new_rows, row_vals),
         processed |-> DictSet(st.processed, name, h_id),
         heroes |-> Append(st.heroes, h)]

\* lines 96-130: for h in heroes
RECURSIVE heroes_loop(_, _, _, _)
heroes_loop(heroes, name_map, current_headers, st) ==
    IF heroes = <<>> THEN st
    ELSE Once({heroes_loop(Tail(heroes), name_map, current_headers, s) :
                  s \in {hero_step(Head(heroes), name_map, current_headers, st)}})

\* lines 93-135: the rows are written and the name -> id map returned
heroes_rows(book, heroes, current_headers, grid2, found) ==
    Once({[book |-> ("Heroes" :> (IF done.new_rows # <<>>
                                  THEN ws_append_rows(done.grid, done.new_rows)
                                  ELSE done.grid)) @@ book,
           heroes |-> done.heroes,
           hero_id_map |-> done.processed] :
             done \in {heroes_loop(heroes, found.name_map, current_headers,
                                   [grid |-> grid2, max_id |-> found.max_id, new_rows |-> <<>>,
                                    processed |-> <<>>, heroes |-> <<>>])}})

\* lines 68-91: the header row is completed and the existing rows scanned
heroes_headers(book, heroes, headers, grid0, existing, seen) ==
    LET grid1 == IF seen = <<>> THEN ws_append_rows(grid0, <<KeysRow(headers)>>) ELSE grid0
        current0 == IF seen = <<>> THEN headers ELSE seen
        new_cols == SelectSeq(headers, LAMBDA h : h \notin Range(current0))
    IN  Once({heroes_rows(book, heroes, current_headers, grid2, found) :
                 current_headers \in {current0 \o new_cols},
                 grid2 \in {IF new_cols # <<>>
                            THEN ws_update_row(grid1, 1, KeysRow(current0 \o new_cols))
                            ELSE grid1},
                 found \in {scan_existing(existing, 1, [name_map |-> <<>>, max_id |-> 0])}})

\* lines 65-68: what is read from the worksheet
heroes_read(book, heroes, headers, grid0) ==
    Once({heroes_headers(book, heroes, headers, grid0, existing, seen) :
             existing \in {ws_get_all_records(grid0)},
             seen \in {HeaderNames(ws_row_values(grid0, 1))}})

update_heroes_sheet(book, heroes) ==
    Once({heroes_read(book, heroes, headers, grid0) :
             headers \in {get_dynamic_headers(heroes, HeroesPriority)},
             grid0 \in {IF "Heroes" \in DOMAIN book THEN book["Heroes"]
                        ELSE ws_append_rows(<<>>, <<KeysRow(get_dynamic_headers(heroes,
                                                                               HeroesPriority))>>)}})

\* lines 173-176: int(row[id_col_idx]), the str itself when that fails
row_hero_id(v) == IF v.k = "str" /\ IsDigits(v.s) THEN PyInt(ParseInt(v.s)) ELSE v

\* lines 187-203: one item
sub_item(item0, hero_id_map, current_headers, st) ==
    LET h_name == PyGet(item0, "Hero")
        known == DictHas(hero_id_map, h_name)
        item == IF known THEN ("ID" :> DictGet(hero_id_map, h_name)) @@ item0 ELSE item0
    IN  [rows |-> IF known THEN Append(st.rows, export_row(item, current_headers)) ELSE st.rows,
         data |-> Append(st.data, item)]

\* lines 186-203: the items of heroes in the map get their ID and a row
RECURSIVE sub_items(_, _, _, _)
sub_items(data, hero_id_map, current_headers, st) ==
    IF data = <<>> THEN st
    ELSE Once({sub_items(Tail(data), hero_id_map, current_headers, s) :
                  s \in {sub_item(Head(data), hero_id_map, current_headers, st)}})

\* lines 160-208: the rows of the heroes of the map are replaced
sub_rows(book, sheet_name, data, hero_id_map, current_headers, grid2, old_rows) ==
    LET id_col_idx == FirstOf({j \in 1..Len(current_headers) : current_headers[j] = "ID"})
        updated_ids == {hero_id_map[i].v : i \in 1..Len(hero_id_map)}
        kept == SelectSeq(old_rows,
                          LAMBDA row : ~(Len(row) >= id_col_idx
                                         /\ row_hero_id(row[id_col_idx]) \in updated_ids))
    IN  IF id_col_idx = 0 THEN [book |-> (sheet_name :> grid2) @@ book, data |-> data]
        ELSE Once({[book |-> (sheet_name :>
                                 ws_replace_all(<<KeysRow(current_headers)>>
                                                \o [i \in 1..Len(cleaned) |->
                                                       PadRow(cleaned[i], Len(current_headers))]
                                                \o added.rows))
                              @@ book,
                    data |-> added.data] :
                      cleaned \in {kept},
                      added \in {sub_items(data, hero_id_map, current_headers,
                                           [rows |-> <<>>, data |-> <<>>])}})

\* lines 147-158: the sheet is read and its header row completed
sub_headers(book, sheet_name, data, hero_id_map, headers, grid0, read) ==
    LET all_rows == IF read = <<>> THEN <<KeysRow(headers)>> ELSE read
        grid1 == IF read = <<>> THEN ws_append_rows(grid0, <<KeysRow(headers)>>) ELSE grid0
        current0 == HeaderNames(TrimRow(all_rows[1]))
        new_cols == SelectSeq(headers, LAMBDA h : h \notin Range(current0))
    IN  Once({sub_rows(book, sheet_name, data, hero_id_map, current_headers, grid2, old_rows) :
                 current_headers \in {current0 \o new_cols},
                 grid2 \in {IF new_cols # <<>>
                            THEN ws_update_row(grid1, 1, KeysRow(current0 \o new_cols))
                            ELSE grid1},
                 old_rows \in {Tail(all_rows)}})

update_sub_sheet(book, sheet_name, data, hero_id_map, priority_fields) ==
    Once({Once({sub_headers(book, sheet_name, data, hero_id_map, headers, grid0, read) :
                   read \in {ws_get_all_values(grid0)}}) :
             headers \in {get_dynamic_headers(data, priority_fields)},
             grid0 \in {IF sheet_name \in DOMAIN book THEN book[sheet_name]
                        ELSE ws_append_rows(<<>>, <<KeysRow(get_dynamic_headers(data,
                                                                               priority_fields))>>)}})

SkillsPriority ==
    <<"ID", "Hero", "Icon", "Unlock Level", "Skill Name", "Type", "Description_EN",
      "Description_VN">>
EngravingPriority ==
    <<"ID", "Hero", "Icon", "Skill Name", "Unlock Level", "Description_EN", "Description_VN">>
SignaturePriority == <<"ID", "Hero", "Description_EN", "Description_VN">>
FurniturePriority == <<"ID", "Hero", "Icon", "Name", "Description_EN", "Description_VN">>

\* lines 216-226: the sub-sheets in the order they are written, each with
\* the list of the batch that goes to it
SubSheets ==
    <<[name |-> "Skills", list |-> "skills", priority |-> SkillsPriority],
      [name |-> "Engraving Abilities", list |-> "engraving", priority |-> EngravingPriority],
      [name |-> "Signature Item", list |-> "signature", priority |-> SignaturePriority],
      [name |-> "Furniture Set Bonuses", list |-> "furniture", priority |-> FurniturePriority]>>

\* lines 216-226: the sub-sheets from the k-th on
RECURSIVE export_subs(_, _, _, _)
export_subs(book, batch, hero_id_map, k) ==
    IF k > Len(SubSheets) THEN [book |-> book, batch |-> batch]
    ELSE Once({export_subs(r.book, [batch EXCEPT ![SubSheets[k].list] = r.data],
                           hero_id_map, k + 1) :
                  r \in {update_sub_sheet(book, SubSheets[k].name, batch[SubSheets[k].list],
                                          hero_id_map, SubSheets[k].priority)}})

\* the batch is the record of the five lists; they come back with the IDs
\* the writer has set in them
export_all_data(book, batch) ==
    Once({export_subs(a.book, [batch EXCEPT !.hero = a.heroes], a.hero_id_map, 1) :
             a \in {update_heroes_sheet(book, batch.hero)}})

-----------------------------------------------------------------------------
(* scraper_service.create_excel: the workbook, a grid per sheet *)

ExcelHeroCols ==
    <<"ID", "Icon", "Name", "Faction", "Type", "Class", "Rarity", "Role", "Primary Role",
      "Secondary Role", "Overall", "Personality", "Background", "Quotes", "Trivia", "URL">>

\* h.get(c, "")
GetOrEmpty(d, key) == IF key \in DOMAIN d THEN PyGet(d, key) ELSE Blank

excel_sheet(cols, rows) ==
    <<KeysRow(cols)>> \o [i \in 1..Len(rows) |->
                             [j \in 1..Len(cols) |-> GetOrEmpty(rows[i], cols[j])]]

create_excel(heroes, skills, engraving_rows, signature_rows, furniture_rows) ==
    ("Heroes" :> excel_sheet(ExcelHeroCols, heroes))
    @@ ("Skills" :> excel_sheet(<<"Hero", "Hero ID", "Unlock Level", "Skill Name", "Type",
                                  "Description">>, skills))
    @@ ("Engraving Abilities" :> excel_sheet(<<"Hero", "Hero ID", "Skill Name", "Unlock Level",
                                               "Description">>, engraving_rows))
    @@ ("Signature Item" :> excel_sheet(<<"Hero", "Hero ID", "Description">>, signature_rows))
    @@ ("Furniture Set Bonuses" :> excel_sheet(<<"Hero", "Hero ID", "Name", "Description">>,
                                               furniture_rows))

-----------------------------------------------------------------------------
(* Exports of batches scraped from hero pages: the pages are scraped, then
   a spreadsheet that starts without worksheets receives up to MaxExports
   batches, each the aggregation of the records of up to MaxBatch pages;
   an Excel workbook is written from a batch *)

s_absIcon == <<"h","t","t","p","s",":","/","/","w",".","i","o","/","a",".","p","n","g">>
s_Blanks == <<" "," ">>

MaxBatch == 2
MaxExports == 2

\* a hero page with an infobox image, a lead, a personality section, a
\* skills table with an icon column and a signature item
ExportPage(t, icon) ==
    TitleNodes(t)
    \o Wrap(WithClass("div", "mw-parser-output"),
            Wrap(WithClass("aside", "portable-infobox"),
                 Wrap(El("figure"), Img(icon)) \o PiData(s_k_Faction, s_Light))
            \o IntroNodes(TRUE) \o SectionOf("Personality")
            \o Heading("h2", s_Skills)
            \o Wrap(El("table"),
                    FullHeader
                    \o Wrap(El("tr"), Wrap(El("td"), Img(icon)) \o Heading("td", s_Slam)
                                      \o Heading("td", s_One) \o Heading("td", s_HitsHard)))
            \o SectionOf("Signature"))

ExportPages ==
    {[t |-> "plain", icon |-> s_absIcon], [t |-> "spaced", icon |-> s_imgA],
     [t |-> "empty", icon |-> s_absIcon]}

PageUrl(pg) ==
    s_url \o (CASE pg.t = "plain" -> <<>> [] pg.t = "spaced" -> <<"2">> [] OTHER -> <<"3">>)

\* what scrape_page returns for the page
PageRecords(pg) == scrape_page(PageUrl(pg), ExportPage(pg.t, pg.icon), "none")

\* the five lists the handler aggregates from the pages; soup holds what
\* scrape_page has returned for each page
BatchOf(pages) == aggregate([i \in 1..Len(pages) |-> soup[pages[i]]], NullResult)

InitExport ==
    /\ fn = "none"
    /\ soup = [pg \in ExportPages |-> PageRecords(pg)]
    /\ args = [pages |-> <<>>, batch |-> NullResult, runs |-> 0, before |-> <<>>]
    /\ ret = <<>>
    /\ called = FALSE
    /\ sh = <<>>
    /\ WsIdle

\* export_all_data on a freshly scraped batch
Call_export_all_data ==
    /\ fn \in {"none", "export_all_data"}
    /\ args.runs < MaxExports
    /\ \E n \in 1..MaxBatch : \E pages \in [1..n -> ExportPages] :
       \E b \in {BatchOf(pages)} :
          LET r == export_all_data(sh, b)
          IN  /\ sh' = r.book
              /\ args' = [pages |-> pages, batch |-> r.batch, runs |-> args.runs + 1,
                          before |-> sh]
    /\ fn' = "export_all_data"
    /\ called' = TRUE
    /\ UNCHANGED <<soup, ret>>
    /\ UNCHANGED wsVars

\* export_all_data once more on the lists of the last export
Call_export_again ==
    /\ fn = "export_all_data"
    /\ args.runs < MaxExports
    /\ LET r == export_all_data(sh, args.batch)
       IN  /\ sh' = r.book
           /\ args' = [args EXCEPT !.batch = r.batch, !.runs = @ + 1, !.before = sh]
    /\ UNCHANGED <<fn, soup, ret, called>>
    /\ UNCHANGED wsVars

Call_create_excel ==
    /\ fn = "none"
    /\ \E n \in 1..MaxBatch : \E pages \in [1..n -> ExportPages] :
       \E b \in {BatchOf(pages)} :
              /\ ret' = create_excel(b.hero, b.skills, b.engraving, b.signature, b.furniture)
              /\ args' = [args EXCEPT !.pages = pages, !.batch = b]
    /\ fn' = "create_excel"
    /\ called' = TRUE
    /\ UNCHANGED <<soup, sh>>
    /\ UNCHANGED wsVars

NextExport == Call_export_all_data \/ Call_export_again \/ Call_create_excel

SpecExport == InitExport /\ [][NextExport]_vars

-----------------------------------------------------------------------------
(* The text the writers put in the free-text and description columns *)

FreeText == {"Overall", "Personality", "Background", "Quotes", "Trivia", "Description"}

EnOf ==
    ("Overall" :> "Overall_EN") @@ ("Personality" :> "Personality_EN")
    @@ ("Background" :> "Background_EN") @@ ("Quotes" :> "Quotes_EN")
    @@ ("Trivia" :> "Trivia_EN") @@ ("Description" :> "Description_EN")

\* the list of the batch that goes to each sheet
SheetList ==
    ("Heroes" :> "hero") @@ ("Skills" :> "skills") @@ ("Engraving Abilities" :> "engraving")
    @@ ("Signature Item" :> "signature") @@ ("Furniture Set Bonuses" :> "furniture")

\* the record's text of a field: its _EN value, the suffix-less one only
\* when the record has no _EN key
RecordText(d, f) ==
    IF EnOf[f] \in DOMAIN d THEN d[EnOf[f]] ELSE IF f \in DOMAIN d THEN d[f] ELSE <<>>

\* the column of a grid titled name, 0 when there is none
ColumnOf(grid, names) == FirstOf({j \in 1..Len(grid[1]) : grid[1][j].s \in names})

\* what the cell of row r shows in column j
CellAt(grid, r, j) == IF j > Len(grid[r]) THEN Blank ELSE Formatted(grid[r][j])

\* row r shows the record's text in every free-text column the grid has
HoldsText(grid, r, d) ==
    \A f \in FreeText :
        LET j == ColumnOf(grid, {f, EnOf[f]})
        IN  j # 0 /\ (f \in DOMAIN d \/ EnOf[f] \in DOMAIN d)
               => CellAt(grid, r, j) = PyStr(RecordText(d, f))

\* row r is the row of the record: same URL for a hero, same hero and skill
\* name for a sub-record
RowOf(grid, r, d) ==
    \A key \in {"URL", "Hero", "Skill Name"} \cap DOMAIN d :
        LET j == ColumnOf(grid, {key})
        IN  j # 0 /\ CellAt(grid, r, j) = PyStr(d[key])

SheetsKeepText ==
    \A name \in DOMAIN SheetList :
        \A i \in 1..Len(args.batch[SheetList[name]]) :
            \E r \in 2..Len(sh[name]) :
                /\ RowOf(sh[name], r, args.batch[SheetList[name]][i])
                /\ HoldsText(sh[name], r, args.batch[SheetList[name]][i])

ExcelKeepsText ==
    \A name \in DOMAIN SheetList :
        \A i \in 1..Len(args.batch[SheetList[name]]) :
            HoldsText(ret[name], i + 1, args.batch[SheetList[name]][i])

\* C14: after either writer has written a batch of scrape_page records, the
\* cell of every free-text or description column (Overall, Personality,
\* Background, Quotes, Trivia, Description) of every hero record and
\* sub-record holds the record's _EN value for that field
C14_WritersKeepText ==
    /\ fn = "export_all_data" => SheetsKeepText
    /\ fn = "create_excel" => ExcelKeepsText

\* the Google Sheets half alone
SheetsWriterKeepsText == fn = "export_all_data" => SheetsKeepText

-----------------------------------------------------------------------------
(* extract_section_text on a Personality section: after the matched heading
   come up to MaxBody nodes, each a paragraph, a list with one item, a
   blockquote, a paragraph of white space, a div with text, a horizontal
   rule or a level-3 heading *)

MaxBody == 3

BodyKinds == {"p", "li", "blockquote", "blank", "div", "hr", "h3"}

BodyNode(kind) ==
    CASE kind = "p" -> Wrap(El("p"), Txt(s_BrutusPadded))
      [] kind = "li" -> Wrap(El("ul"), Wrap(El("li"), Txt(s_Old)))
      [] kind = "blockquote" -> Wrap(El("blockquote"), Txt(s_Sad))
      [] kind = "blank" -> Wrap(El("p"), Txt(s_sp))
      [] kind = "div" -> Wrap(El("div"), Txt(s_Box))
      [] kind = "hr" -> Wrap(El("hr"), <<>>)
      [] kind = "h3" -> Heading("h3", s_Den)

RECURSIVE BodyNodes(_)
BodyNodes(kinds) == IF kinds = <<>> THEN <<>> ELSE BodyNode(Head(kinds)) \o BodyNodes(Tail(kinds))

SectionTextPage(kinds) ==
    Wrap(WithClass("div", "mw-parser-output"),
         Wrap(El("p"), Txt(s_Lead)) \o Heading("h2", s_Personality) \o BodyNodes(kinds))

InitSectionText ==
    \E n \in 0..MaxBody : \E ks \in [1..n -> BodyKinds] :
        InitPure("extract_section_text", SectionTextPage(ks), [kinds |-> ks])

Call_extract_section_text ==
    /\ fn = "extract_section_text"
    /\ ~called
    /\ ret' = extract_section_text(soup, <<s_Personality>>)
    /\ called' = TRUE
    /\ UNCHANGED <<fn, soup, args, sh>>
    /\ UNCHANGED wsVars

NextSectionText == Call_extract_section_text

SpecSectionText == InitSectionText /\ [][NextSectionText]_vars

\* the normalized text of a body node that is a paragraph, list item or
\* blockquote with text
BodyText(kind) ==
    CASE kind = "p" -> <<s_Brutus>>
      [] kind = "li" -> <<s_Old>>
      [] kind = "blockquote" -> <<s_Sad>>
      [] OTHER -> <<>>

\* the texts of the collected elements of the nodes before the first node
\* whose kind is in stops
RECURSIVE TextsBefore(_, _)
TextsBefore(kinds, stops) ==
    IF kinds = <<>> \/ Head(kinds) \in stops THEN <<>>
    ELSE BodyText(Head(kinds)) \o TextsBefore(Tail(kinds), stops)

\* C15: extract_section_text returns the newline-joined normalized
\* non-empty texts of the paragraphs, list items and blockquotes after the
\* matched heading and before the first later heading, in document order;
\* collection stops at a heading and at no other node
C15_StopsAtHeadingOnly ==
    fn = "extract_section_text" /\ called => ret = Join(TextsBefore(args.kinds, {"h3"}), s_nl)

\* what the loop does: it stops at a heading and at a horizontal rule
SectionTextStopsAtHTags ==
    fn = "extract_section_text" /\ called
        => ret = Join(TextsBefore(args.kinds, {"h3", "hr"}), s_nl)

-----------------------------------------------------------------------------
(* extract_engraving_rows on an Engraving section with one table: a header
   row of up to MaxCols distinct columns among Unlock, Level, Name and
   Description in any order, and one data row that is full or holds its
   first cell only *)

s_v30 == <<"3","0">>
s_v60 == <<"6","0">>

MaxCols == 4

ColKinds == {"unlock", "level", "name", "description"}

ColTitle(kind) ==
    CASE kind = "unlock" -> s_Unlock [] kind = "level" -> s_Level
      [] kind = "name" -> s_Name [] kind = "description" -> s_Description

ColValue(kind) ==
    CASE kind = "unlock" -> s_v30 [] kind = "level" -> s_v60
      [] kind = "name" -> s_Slam [] kind = "description" -> s_HitsHard

RECURSIVE CellsOf(_, _, _)
CellsOf(tag, cols, title) ==
    IF cols = <<>> THEN <<>>
    ELSE Heading(tag, IF title THEN ColTitle(Head(cols)) ELSE ColValue(Head(cols)))
         \o CellsOf(tag, Tail(cols), title)

EngravingPage(cols, short) ==
    Wrap(WithClass("div", "mw-parser-output"),
         Heading("h2", s_Engraving)
         \o Wrap(El("table"),
                 Wrap(El("tr"), CellsOf("th", cols, TRUE))
                 \o Wrap(El("tr"), CellsOf("td", IF short THEN SubSeq(cols, 1, 1) ELSE cols,
                                            FALSE))))

Injective(f) == \A i, j \in DOMAIN f : f[i] = f[j] => i = j

InitEngraving ==
    \E n \in 1..MaxCols : \E cols \in [1..n -> ColKinds] : \E short \in BOOLEAN :
        /\ Injective(cols)
        /\ InitPure("extract_engraving_rows", EngravingPage(cols, short),
                    [cols |-> cols, short |-> short])

Call_extract_engraving_rows ==
    /\ fn = "extract_engraving_rows"
    /\ ~called
    /\ ret' = extract_engraving_rows(soup, s_Brutus)
    /\ called' = TRUE
    /\ UNCHANGED <<fn, soup, args, sh>>
    /\ UNCHANGED wsVars

NextEngraving == Call_extract_engraving_rows

SpecEngraving == InitEngraving /\ [][NextEngraving]_vars

\* the table qualifies: an unlock or level column and a description column
QualifyingCols(cols) ==
    /\ "description" \in Range(cols)
    /\ {"unlock", "level"} \cap Range(cols) # {}

\* the column the header text designates for Unlock Level
UnlockCol(cols) ==
    IF "unlock" \in Range(cols) THEN FirstOf({i \in 1..Len(cols) : cols[i] = "unlock"})
    ELSE FirstOf({i \in 1..Len(cols) : cols[i] = "level"})

\* the text of the data row's cell in column c
RowCell(cols, short, c) ==
    IF c = 0 \/ (short /\ c > 1) THEN <<>> ELSE ColValue(cols[c])

\* C16: for a qualifying engraving table each entry's Unlock Level is the
\* text of the row's cell in the first header column containing "unlock",
\* else "level", wherever that column stands, the first place included
C16_UnlockByHeaderText ==
    fn = "extract_engraving_rows" /\ called /\ QualifyingCols(args.cols)
        => \A i \in 1..Len(ret) :
              ret[i]["Unlock Level"] = RowCell(args.cols, args.short, UnlockCol(args.cols))

\* the same, for the tables whose unlock column is not the first column
UnlockByHeaderTextUnlessFirst ==
    fn = "extract_engraving_rows" /\ called /\ QualifyingCols(args.cols)
    /\ args.cols[1] # "unlock"
        => \A i \in 1..Len(ret) :
              ret[i]["Unlock Level"] = RowCell(args.cols, args.short, UnlockCol(args.cols))

-----------------------------------------------------------------------------
(* extract_furniture_rows on a Furniture section heading followed by up to
   MaxFurnitureNodes nodes, each a level-3 heading, a level-4 heading, a
   list, a paragraph or the level-2 heading of the next section *)

MaxFurnitureNodes == 3

FurnitureKinds == {"h3", "h4", "ul", "p", "h2"}

FurnitureNode(kind) ==
    CASE kind = "h3" -> Heading("h3", s_Den)
      [] kind = "h4" -> Heading("h4", s_Roar)
      [] kind = "ul" -> Wrap(El("ul"), Wrap(El("li"), Txt(s_Bonus)))
      [] kind = "p" -> Wrap(El("p"), Txt(s_Kind))
      [] kind = "h2" -> Heading("h2", s_Trivia)

RECURSIVE FurnitureNodes(_)
FurnitureNodes(kinds) ==
    IF kinds = <<>> THEN <<>> ELSE FurnitureNode(Head(kinds)) \o FurnitureNodes(Tail(kinds))

FurniturePage(kinds) ==
    Wrap(WithClass("div", "mw-parser-output"),
         Heading("h2", s_FurnitureSetBonuses) \o FurnitureNodes(kinds))

InitFurniture ==
    \E n \in 0..MaxFurnitureNodes : \E ks \in [1..n -> FurnitureKinds] :
        InitPure("extract_furniture_rows", FurniturePage(ks), [kinds |-> ks])

Call_extract_furniture_rows ==
    /\ fn = "extract_furniture_rows"
    /\ ~called
    /\ ret' = extract_furniture_rows(soup, s_Brutus)
    /\ called' = TRUE
    /\ UNCHANGED <<fn, soup, args, sh>>
    /\ UNCHANGED wsVars

NextFurniture == Call_extract_furniture_rows

SpecFurniture == InitFurniture /\ [][NextFurniture]_vars

\* the text of the first level-3/4 heading among the nodes before the first
\* node whose kind is in stops; empty when there is none
RECURSIVE NameBefore(_, _)
NameBefore(kinds, stops) ==
    IF kinds = <<>> \/ Head(kinds) \in stops THEN <<>>
    ELSE IF Head(kinds) = "h3" THEN s_Den
    ELSE IF Head(kinds) = "h4" THEN s_Roar
    ELSE NameBefore(Tail(kinds), stops)

\* the Name of a row whose item has no name heading
NoName == s_Furniture

\* C17: the item name is the text of the first level-3/4 heading after the
\* furniture heading and before the next level-2 heading; without one, no
\* name is taken from a later section
C17_NameWithinSection ==
    fn = "extract_furniture_rows" /\ called
        => \A i \in 1..Len(ret) :
              ret[i]["Name"] = IF NameBefore(args.kinds, {"h2"}) # <<>>
                               THEN NameBefore(args.kinds, {"h2"}) ELSE NoName

\* what the loop does: the first level-3/4 heading after the furniture
\* heading, whatever lies between
FurnitureNameIsNextHeading ==
    fn = "extract_furniture_rows" /\ called
        => \A i \in 1..Len(ret) :
              ret[i]["Name"] = IF NameBefore(args.kinds, {}) # <<>>
                               THEN NameBefore(args.kinds, {}) ELSE NoName

-----------------------------------------------------------------------------
(* extract_signature_item_desc on a Signature Item heading of level 2 or 3
   followed by up to MaxSigNodes nodes: a paragraph, a blockquote, an
   unordered or an ordered list with one item, a level-3 "Item:" heading, a
   level-3 heading with another text, a level-4 "SKILL:" heading, a
   horizontal rule or a level-2 heading *)

s_SkillRoar == <<"S","K","I","L","L",":"," ","R","o","a","r">>
s_Notes == <<"N","o","t","e","s">>

MaxSigNodes == 3

SigKinds == {"p", "blockquote", "ul", "ol", "h3item", "h3other", "h4skill", "hr", "h2"}

SigNode(kind) ==
    CASE kind = "p" -> Wrap(El("p"), Txt(s_Sharp))
      [] kind = "blockquote" -> Wrap(El("blockquote"), Txt(s_Sad))
      [] kind = "ul" -> Wrap(El("ul"), Wrap(El("li"), Txt(s_Sharp)))
      [] kind = "ol" -> Wrap(El("ol"), Wrap(El("li"), Txt(s_Old)))
      [] kind = "h3item" -> Heading("h3", s_ItemAxe)
      [] kind = "h3other" -> Heading("h3", s_Notes)
      [] kind = "h4skill" -> Heading("h4", s_SkillRoar)
      [] kind = "hr" -> Wrap(El("hr"), <<>>)
      [] kind = "h2" -> Heading("h2", s_Trivia)

RECURSIVE SigNodes(_)
SigNodes(kinds) == IF kinds = <<>> THEN <<>> ELSE SigNode(Head(kinds)) \o SigNodes(Tail(kinds))

SignaturePage(root, kinds) ==
    Wrap(WithClass("div", "mw-parser-output"),
         Wrap(El("p"), Txt(s_Lead)) \o Heading(root, s_SignatureItem) \o SigNodes(kinds))

InitSignature ==
    \E root \in {"h2", "h3"} : \E n \in 0..MaxSigNodes : \E ks \in [1..n -> SigKinds] :
        InitPure("extract_signature_item_desc", SignaturePage(root, ks),
                 [root |-> root, kinds |-> ks])

Call_extract_signature_item_desc ==
    /\ fn = "extract_signature_item_desc"
    /\ ~called
    /\ ret' = extract_signature_item_desc(soup)
    /\ called' = TRUE
    /\ UNCHANGED <<fn, soup, args, sh>>
    /\ UNCHANGED wsVars

NextSignature == Call_extract_signature_item_desc

SpecSignature == InitSignature /\ [][NextSignature]_vars

\* the level of the heading a node kind stands for, 0 for the other kinds
SigLevel(kind) ==
    CASE kind = "h2" -> 2 [] kind \in {"h3item", "h3other"} -> 3 [] kind = "h4skill" -> 4
      [] OTHER -> 0

\* the line a node contributes; lists is the set of list kinds whose items
\* contribute
SigLine(kind, lists) ==
    CASE kind = "p" -> <<s_Sharp>>
      [] kind = "blockquote" -> <<s_Sad>>
      [] kind = "ul" /\ kind \in lists -> <<s_Sharp>>
      [] kind = "ol" /\ kind \in lists -> <<s_Old>>
      [] kind = "h3item" -> <<s_ItemAxe>>
      [] kind = "h4skill" -> <<s_SkillRoar>>
      [] OTHER -> <<>>

\* the lines of the nodes before the first heading of level <= base
RECURSIVE SigLinesBefore(_, _, _)
SigLinesBefore(kinds, base, lists) ==
    IF kinds = <<>> \/ (SigLevel(Head(kinds)) # 0 /\ SigLevel(Head(kinds)) <= base) THEN <<>>
    ELSE SigLine(Head(kinds), lists) \o SigLinesBefore(Tail(kinds), base, lists)

SigBase == IF args.root = "h2" THEN 2 ELSE 3

SigOut == IF ret = <<>> THEN <<>> ELSE SplitOn(ret, "\n")

\* out holds every distinct line of items once, in the order of first
\* occurrence
DedupFirstSeen(out, items) ==
    /\ Range(out) = Range(items)
    /\ \A i, j \in 1..Len(out) :
          i < j => out[i] # out[j] /\ FirstIndex(items, out[i]) < FirstIndex(items, out[j])

\* C18: the output lines of extract_signature_item_desc are, in document
\* order and without duplicates, the texts of the paragraphs, blockquotes
\* and list items and of the level-3/4 sub-headings beginning with "Item:"
\* or "Skill:", between the signature heading and the first later heading
\* of level <= its own; nothing else is included
C18_SignatureLinesStopRuleB ==
    fn = "extract_signature_item_desc" /\ called
        => DedupFirstSeen(SigOut, SigLinesBefore(args.kinds, SigBase, {"ul", "ol"}))

\* what the loop does: of the lists, only the unordered ones contribute
SignatureLinesOfUlOnly ==
    fn = "extract_signature_item_desc" /\ called
        => DedupFirstSeen(SigOut, SigLinesBefore(args.kinds, SigBase, {"ul"}))

-----------------------------------------------------------------------------
(* The messages of a websocket session.  The handler and each page task
   take their next step sooner or later: the event loop runs every ready
   coroutine and requests.get has a timeout *)

HandlerStep ==
    \/ ValidationFails \/ Launch \/ GatherReturns \/ GatherRaises \/ NoData
    \/ SheetProgress \/ ExportCompletes \/ ExportRaises \/ OuterExcept \/ Close

TaskStep(i) ==
    /\ i \in 1..Len(task_pc)
    /\ \/ Acquire(i)
       \/ \E how \in {"ok", "null", "raise"} : ScrapeReturns(i, how)
       \/ SendProgress(i)
       \/ SendProgressRaises(i)

FairSpecWs == SpecWs /\ WF_vars(HandlerStep) /\ \A i \in 1..MaxUrls : WF_vars(TaskStep(i))

Terminal(m) == m.type \in {"complete", "error"}

\* the "current" values of the progress messages of the page tasks
ScrapeCurrents ==
    LET at == Ordered({k \in 1..Len(sent) :
                          sent[k].type = "progress" /\ sent[k].message \in {"Completed", "Failed"}})
    IN  [k \in 1..Len(at) |-> sent[at[k]].current]

SessionMessagesOk ==
    \* only the last message can be terminal: one at most, no progress after it
    /\ \A k \in 1..(Len(sent) - 1) : ~Terminal(sent[k])
    \* after the terminal message the handler only closes
    /\ sent # <<>> /\ Terminal(sent[Len(sent)]) => ws_pc \in {"finally", "closed"}
    \* with the peer there, the socket is closed after a terminal message
    /\ ws_pc = "closed" /\ ~client_gone => sent # <<>> /\ Terminal(sent[Len(sent)])
    \* the page tasks number their messages 1..total, each number once
    /\ Injective(ScrapeCurrents)
    /\ Range(ScrapeCurrents) \subseteq 1..Total
    /\ ws_pc \in {"aggregated", "exporting"} => Range(ScrapeCurrents) = 1..Total

\* C19: every session that has received its request ends, on every path,
\* with exactly one terminal message (complete or error) as its last
\* message when the sends succeed, and then closes the socket; no progress
\* message follows the terminal one, and the progress messages of the page
\* tasks carry the values 1..total in current, each once, however the
\* tasks interleave
C19_OneTerminalThenClose == []SessionMessagesOk /\ <>(ws_pc = "closed")

\* two tasks finish before either reports: the reports go out in the other
\* order, the export completes and the socket is closed
C19_Witness ==
    /\ ws_pc = "closed"
    /\ ~client_gone
    /\ Total = 2
    /\ Len(sent) = 3
    /\ sent[1].current = 2 /\ sent[2].current = 1
    /\ sent[3].type = "complete"

-----------------------------------------------------------------------------
(* Repeated exports to the spreadsheet *)

\* a step that exports a batch
ExportStep == fn' = "export_all_data" /\ args'.runs = args.runs + 1

\* a step that exports the heroes and sub-records of the previous export
ReExportStep == ExportStep /\ args.runs >= 1 /\ args'.pages = args.pages

\* the names of the heroes of the batch being exported
BatchNames == {PyStr(args'.batch.hero[i]["Name"]) : i \in 1..Len(args'.batch.hero)}

\* the hero a row of a sheet belongs to
RowHero(name, grid, r) ==
    CellAt(grid, r, ColumnOf(grid, {IF name = "Heroes" THEN "Name" ELSE "Hero"}))

\* the rows of heroes that are not in the batch are in the sheet as before
OtherRowsKept ==
    \A name \in DOMAIN sh :
        \A r \in 2..Len(sh[name]) :
            RowHero(name, sh[name], r) \notin BatchNames
                => \E q \in 2..Len(sh'[name]) : sh'[name][q] = sh[name][r]

\* C20: exporting the same heroes and sub-records a second time leaves the
\* Heroes sheet and every sub-sheet with the rows of the first export (no
\* new ID, no duplicated row), and an export leaves the rows of the heroes
\* that are not in its batch unchanged
C20_ExportIdempotent ==
    [][(ReExportStep => sh' = sh) /\ (ExportStep => OtherRowsKept)]_vars

\* the two halves of it
ReExportKeepsRows == [][ReExportStep => sh' = sh]_vars

ExportKeepsOtherRows == [][ExportStep => OtherRowsKept]_vars

====
